---- MODULE Spec2Model ----
(***************************************************************************)
(* Model of the session-scheduling engine of nx-claude-sessions.           *)
(*                                                                         *)
(* SessionPool (libs/nx-claude-sessions/src/utils/session-pool.ts) is an   *)
(* in-memory admission queue run on one event loop.  Every synchronous     *)
(* stretch of a method is one atomic step.  The only await that spans      *)
(* event-loop turns is the start of the agent subprocess                   *)
(* (ClaudeCodeIntegration.startSession probes binaries and waits for their *)
(* exit events), so a start is split in two steps: the synchronous part of *)
(* spawnSession and, later, StartSucceeds or StartFails.  The await in     *)
(* terminateSession and shutdown is on ClaudeCodeIntegration               *)
(* .terminateSession, whose body has no await: no process event can be     *)
(* delivered before the continuation runs, and these two methods are one   *)
(* step each.                                                              *)
(***************************************************************************)
EXTENDS Integers, Sequences, FiniteSets, TLC

\* ------------------------------------------------------------------ bounds
MaxRequests == 4          \* requestSession calls in one run
MaxLimit == 2             \* largest concurrency limit explored
MaxPriorityRequests == 2  \* requestSession calls in one run of SpecPriority
MaxLibraries == 3         \* longest candidate list given to the planner
MaxSessions == 2          \* largest maxSessions given to the planner
MaxPlanLibraries == 2     \* projects in a plan handed to executeOrchestrationPlan
MaxEntryCalls == 2        \* addEntry calls in one run of SpecMemory
MaxCapCalls == 25         \* addEntry calls in one run of SpecMemoryCap
MaxTime == 1              \* hours the clock advances in one run
MaxAge == 1               \* largest hoursOld given to cleanupOldEntries
MaxRecords == 2           \* records written in one run of SpecStore
MaxStoreTime == 1         \* milliseconds the clock advances in one run of SpecStore
MaxSummaries == 3         \* persistSessionKnowledge calls in one run
MaxCapSummaries == 11     \* persistSessionKnowledge calls in one run of SpecKnowledgeCap
MaxBuiltLibraries == 3     \* candidates of a plan built for executeOrchestrationPlan
MaxKeep == 2              \* largest maxRecentSessions given to compressOldSessions
MaxHandoffCalls == 4      \* addHandoff calls in one run of SpecHandoff

\* the polls a phase wait makes before it gives up
maxRetries == 450

\* ------------------------------------------------------------- task inputs
TaskTypes == {"feature", "bug-fix", "refactor", "test", "documentation"}
Complexities == {"low", "medium", "high"}
DependencyLists == {<<>>, <<"shared-lib">>}
BasePriorities == {10, 50}

TaskDescriptor(type, priority, complexity, deps) ==
  [type |-> type, priority |-> priority, estimatedComplexity |-> complexity,
   crossLibraryDependencies |-> deps]

\* every combination of the fields calculatePriority reads
AllTasks ==
  {TaskDescriptor(ty, pr, cx, d) :
     ty \in TaskTypes, pr \in BasePriorities, cx \in Complexities, d \in DependencyLists}

\* the tasks of the scheduling runs, of scores 10, 90 and 50; two requests for
\* the same task tie
Tasks ==
  {TaskDescriptor("feature", 10, "low", <<>>),
   TaskDescriptor("bug-fix", 70, "medium", <<>>),
   TaskDescriptor("refactor", 35, "high", <<"shared-lib">>)}

\* ------------------------------------------------------------------- state
VARIABLES
  maxConcurrency,     \* SessionPool.maxConcurrency
  activeSessionsMap,  \* keys of SessionPool.activeSessionsMap
  claudeSessionsMap,  \* keys of SessionPool.claudeSessionsMap
  taskQueue,          \* SessionPool.taskQueue: sequence of SessionTask
  sessions,           \* every SessionInstance created so far, by counter value
  starting,           \* sessions whose startClaudeCodeSession is awaited
  promises,           \* the promise of each requestSession call, by call number
  lastOp              \* the last method or handler that ran to its end, and its outcome

\* the planner of FeatureOrchestrator: its inputs and the locals of
\* createDependencyAwarePhases
VARIABLES
  libraries,          \* the candidate list, in order
  maxSessions,        \* the maxSessions argument
  dependencies,       \* projectGraph.dependencies: the targets of each project
  processed,          \* the local set 'processed'
  phases,             \* the local array 'phases'
  planReturned        \* whether the loop has ended and 'phases' was returned

planVars == <<libraries, maxSessions, dependencies, processed, phases, planReturned>>

\* one call of FeatureOrchestrator.executeOrchestrationPlan on plan.phases
VARIABLES
  pc,                 \* the await the call is suspended at
  phaseIndex,         \* the loop variable phaseIndex, from 1
  libIndex,           \* the position of 'library' in phase.libraries, from 1
  phaseSessions,      \* 'sessions' of executePhase, then 'phaseSessions'
  allSessions,        \* the local array 'allSessions'
  retryCount,         \* 'retryCount' of the wait in progress
  issued,             \* the <<phase, position>> of each requestSession call made
  warned,             \* the sessions cleanupSessions logged a warning for
  returned            \* what the call returned, or that it threw

orchVars == <<pc, phaseIndex, libIndex, phaseSessions, allSessions, retryCount,
              issued, warned, returned>>

\* WorkingMemoryManager, for one library
VARIABLES
  memoryCache,        \* memoryCache: <<>> or the library's LibraryWorkingMemory
  memoryFile,         \* the library's working-memory file: <<>> or its content
  now,                \* Date.now(): hours for the working memory, milliseconds
                      \* for the ids of the knowledge records
  added,              \* the addEntry calls made so far, by entry type, and
                      \* the addHandoff calls under "handoff"
  memOp               \* the last method of the manager that ran, and its outcome

memVars == <<memoryCache, memoryFile, now, added, memOp>>

\* McpIntegration, on its local storage
VARIABLES
  decisionsFile,      \* the decisions.json of each scope: the list it holds
  patternsFile,       \* the patterns.json of each scope: the list it holds
  view,               \* <<>> or what getHierarchicalContext returned last
  storeOp             \* the last method of the integration that ran, and
                      \* what it returned

storeVars == <<decisionsFile, patternsFile, view, storeOp>>

\* KnowledgeManager, for one library
VARIABLES
  knowledgeFile,      \* the library's history file: <<>> or its content
  persisted,          \* the persistSessionKnowledge calls made so far
  knowOp              \* the last method of the manager that ran, its
                      \* argument and its outcome

knowVars == <<knowledgeFile, persisted, knowOp>>

\* WorkingMemoryManager, for the libraries of a workspace
VARIABLES
  cacheOf,            \* memoryCache by library name: <<>> or the cached memory
  fileOf,             \* the working-memory files by their sanitized name: <<>>
                      \* or the content
  keyed,              \* the addEntry calls made so far
  keyOp               \* the last method of the manager that ran, and the
                      \* library it was called for

keyVars == <<cacheOf, fileOf, keyed, keyOp>>

vars == <<maxConcurrency, activeSessionsMap, claudeSessionsMap, taskQueue, sessions,
          starting, promises, lastOp>>

\* the pool as one value, so that a method can hand it to the method it calls
Pool ==
  [maxConcurrency |-> maxConcurrency, activeSessionsMap |-> activeSessionsMap,
   claudeSessionsMap |-> claudeSessionsMap, taskQueue |-> taskQueue,
   sessions |-> sessions, starting |-> starting,
   promises |-> promises]

Commit(p) ==
  /\ maxConcurrency' = p.maxConcurrency
  /\ activeSessionsMap' = p.activeSessionsMap
  /\ claudeSessionsMap' = p.claudeSessionsMap
  /\ taskQueue' = p.taskQueue
  /\ sessions' = p.sessions
  /\ starting' = p.starting
  /\ promises' = p.promises

Op(name, result) == [op |-> name, result |-> result]

sessionIdCounter == Len(sessions)

\* no planning going on
PlanIdle ==
  /\ libraries = <<>>
  /\ maxSessions = 1
  /\ dependencies = <<>>
  /\ processed = {}
  /\ phases = <<>>
  /\ planReturned = TRUE

\* no orchestration going on
OrchIdle ==
  /\ pc = "idle"
  /\ phaseIndex = 1
  /\ libIndex = 1
  /\ phaseSessions = <<>>
  /\ allSessions = <<>>
  /\ retryCount = 0
  /\ issued = <<>>
  /\ warned = {}
  /\ returned = [state |-> "none", success |-> FALSE, sessions |-> <<>>]

EntryTypes == {"todo", "completed", "blocked", "question", "change", "decision"}

\* a manager just constructed, no file on disk
\* ------------------------------------- the file names of the working memory
MaxNameLength == 2
MaxKeyedCalls == 2

\* the characters of a library name: the two that sanitizeLibraryName
\* replaces, a lower-case and an upper-case letter
Characters == {"@", "/", "a", "A"}

RECURSIVE NamesOfLength(_)
NamesOfLength(n) ==
  IF n = 0 THEN {<<>>}
  ELSE {Append(name, c) : name \in NamesOfLength(n - 1), c \in Characters}

\* the library names given to the manager
ProjectNames == UNION {NamesOfLength(n) : n \in 1..MaxNameLength}

\* .replace(/[@/]/g, '-')
replaceScope(name) ==
  [i \in 1..Len(name) |-> IF name[i] \in {"@", "/"} THEN "-" ELSE name[i]]

\* .replace(/^-+|-+$/g, '')
RECURSIVE trimDashes(_)
trimDashes(name) ==
  IF name = <<>> THEN name
  ELSE IF Head(name) = "-" THEN trimDashes(Tail(name))
  ELSE IF name[Len(name)] = "-" THEN trimDashes(SubSeq(name, 1, Len(name) - 1))
  ELSE name

\* .replace(/-+/g, '-')
RECURSIVE collapseDashes(_)
collapseDashes(name) ==
  IF Len(name) < 2 THEN name
  ELSE IF name[1] = "-" /\ name[2] = "-" THEN collapseDashes(Tail(name))
  ELSE <<name[1]>> \o collapseDashes(Tail(name))

\* .toLowerCase()
toLowerCase(name) ==
  [i \in 1..Len(name) |-> IF name[i] = "A" THEN "a" ELSE name[i]]

sanitizeLibraryName(library) ==
  toLowerCase(collapseDashes(trimDashes(replaceScope(library))))

\* the file name that getMemoryPath builds in the memory directory
getMemoryPath(library) == sanitizeLibraryName(library)

MemoryPaths == {getMemoryPath(library) : library \in ProjectNames}

MemoryIdle ==
  /\ memoryCache = <<>>
  /\ memoryFile = <<>>
  /\ now = 0
  /\ added = [type \in EntryTypes \cup {"handoff"} |-> 0]
  /\ memOp = Op("constructor", "ok")

StoreLibraries == {"a", "b"}
Scopes == {"workspace"} \cup StoreLibraries

\* an integration just constructed, nothing recorded in any scope
StoreIdle ==
  /\ decisionsFile = [scope \in Scopes |-> <<>>]
  /\ patternsFile = [scope \in Scopes |-> <<>>]
  /\ view = <<>>
  /\ storeOp = Op("constructor", "ok")

\* a manager just constructed, no history file on disk
KnowledgeIdle ==
  /\ knowledgeFile = <<>>
  /\ persisted = 0
  /\ knowOp = [op |-> "constructor", arg |-> 0, result |-> "ok"]

KeysIdle ==
  /\ cacheOf = [library \in ProjectNames |-> <<>>]
  /\ fileOf = [path \in MemoryPaths |-> <<>>]
  /\ keyed = 0
  /\ keyOp = [op |-> "constructor", library |-> <<>>]

PoolInit ==
  /\ maxConcurrency \in 1..MaxLimit
  /\ activeSessionsMap = {}
  /\ claudeSessionsMap = {}
  /\ taskQueue = <<>>
  /\ sessions = <<>>
  /\ starting = {}
  /\ promises = <<>>
  /\ lastOp = Op("constructor", "ok")

Init == PoolInit /\ PlanIdle /\ OrchIdle /\ MemoryIdle /\ StoreIdle /\ KnowledgeIdle /\ KeysIdle

\* --------------------------------------------------------------- operations
hasAvailableSlot(p) == Cardinality(p.activeSessionsMap) < p.maxConcurrency

\* a slip: the three bonuses chained with else-if, so that only the first applies
calculatePriorityElseIf(task) ==
  IF Len(task.crossLibraryDependencies) > 0 THEN task.priority + 10
  ELSE IF task.estimatedComplexity = "high" THEN task.priority + 5
  ELSE IF task.type = "bug-fix" THEN task.priority + 20
  ELSE task.priority

calculatePriority(task) ==
  LET p0 == task.priority
      p1 == IF Len(task.crossLibraryDependencies) > 0 THEN p0 + 10 ELSE p0
      p2 == IF task.estimatedComplexity = "high" THEN p1 + 5 ELSE p1
      p3 == IF task.type = "bug-fix" THEN p2 + 20 ELSE p2
  IN p3

\* a slip: a comparator that puts a new request before the waiting requests of
\* its own score
InsertBeforeEqual(s, x) ==
  LET k == Cardinality({i \in 1..Len(s) : s[i].priority > x.priority})
  IN SubSeq(s, 1, k) \o <<x>> \o SubSeq(s, k + 1, Len(s))

\* Array.prototype.sort with (a, b) => b.priority - a.priority: a stable sort,
\* descending by priority
InsertByPriority(s, x) ==
  LET k == Cardinality({i \in 1..Len(s) : s[i].priority >= x.priority})
  IN SubSeq(s, 1, k) \o <<x>> \o SubSeq(s, k + 1, Len(s))

RECURSIVE SortByPriority(_)
SortByPriority(s) ==
  IF s = <<>> THEN <<>>
  ELSE InsertByPriority(SortByPriority(SubSeq(s, 1, Len(s) - 1)), s[Len(s)])

queueTask(p, sessionTask) ==
  [p EXCEPT !.taskQueue = SortByPriority(Append(@, sessionTask))]

\* spawnSession up to its await: the instance is created 'pending' and set
\* 'active' in the same synchronous stretch; it is in no map yet
spawnSession(p, request) ==
  [p EXCEPT !.sessions = Append(@, [status |-> "active", endTime |-> FALSE,
                                    claudeCodeProcess |-> FALSE,
                                    request |-> request]),
            !.starting = @ \cup {Len(p.sessions) + 1}]

\* a slip: pop() in place of shift(), which takes the lowest score
processQueuePop(p) ==
  IF Len(p.taskQueue) = 0 \/ ~hasAvailableSlot(p) THEN p
  ELSE LET nextTask == p.taskQueue[Len(p.taskQueue)]
       IN spawnSession([p EXCEPT !.taskQueue = SubSeq(@, 1, Len(@) - 1)],
                       nextTask.request)

processQueue(p) ==
  IF Len(p.taskQueue) = 0 \/ ~hasAvailableSlot(p) THEN p
  ELSE LET nextTask == Head(p.taskQueue)
       IN spawnSession([p EXCEPT !.taskQueue = Tail(@)], nextTask.request)

\* a slip: no check that the session is still in the active map
handleSessionExitUnguarded(p, sessionId, exitCode) ==
  processQueue(
    [p EXCEPT !.sessions[sessionId].endTime = TRUE,
              !.sessions[sessionId].status =
                  IF exitCode = 0 THEN "completed" ELSE "failed",
              !.activeSessionsMap = @ \ {sessionId},
              !.claudeSessionsMap = @ \ {sessionId}])

handleSessionExit(p, sessionId, exitCode) ==
  IF sessionId \notin p.activeSessionsMap THEN p
  ELSE processQueue(
         [p EXCEPT !.sessions[sessionId].endTime = TRUE,
                   !.sessions[sessionId].status =
                       IF exitCode = 0 THEN "completed" ELSE "failed",
                   !.activeSessionsMap = @ \ {sessionId},
                   !.claudeSessionsMap = @ \ {sessionId}])

\* ------------------------------------------------------------------ actions
RequestFrom(taskSet, maxCalls) ==
  /\ Len(promises) < maxCalls
  /\ \E task \in taskSet :
       LET request == Len(promises) + 1
           p == [Pool EXCEPT !.promises = Append(@, "pending")]
       IN IF hasAvailableSlot(p)
          THEN /\ Commit(spawnSession(p, request))
               /\ lastOp' = Op("requestSession", "spawn")
          ELSE /\ Commit(queueTask(p, [request |-> request, task |-> task,
                                       priority |-> calculatePriority(task)]))
               /\ lastOp' = Op("requestSession", "queued")

RequestSession == RequestFrom(Tasks, MaxRequests)

\* startClaudeCodeSession resolves: both maps get the session and the exit and
\* error handlers are attached
StartSucceeds(sessionId) ==
  /\ sessionId \in starting
  /\ Commit([Pool EXCEPT !.starting = @ \ {sessionId},
                         !.sessions[sessionId].claudeCodeProcess = TRUE,
                         !.claudeSessionsMap = @ \cup {sessionId},
                         !.activeSessionsMap = @ \cup {sessionId},
                         !.promises[sessions[sessionId].request] = "resolved"])
  /\ lastOp' = Op("spawnSession", "started")

\* a slip: the session is put in the active map before the start is awaited, and
\* the catch block leaves it there
StartFailsKeepsSlot(sessionId) ==
  /\ sessionId \in starting
  /\ Commit([Pool EXCEPT !.starting = @ \ {sessionId},
                         !.sessions[sessionId].status = "failed",
                         !.sessions[sessionId].endTime = TRUE,
                         !.activeSessionsMap = @ \cup {sessionId},
                         !.promises[sessions[sessionId].request] = "rejected: start"])
  /\ lastOp' = Op("spawnSession", "failed")

\* startClaudeCodeSession throws: the catch block of spawnSession
StartFails(sessionId) ==
  /\ sessionId \in starting
  /\ Commit([Pool EXCEPT !.starting = @ \ {sessionId},
                         !.sessions[sessionId].status = "failed",
                         !.sessions[sessionId].endTime = TRUE,
                         !.promises[sessions[sessionId].request] = "rejected: start"])
  /\ lastOp' = Op("spawnSession", "failed")

\* the 'exit' event of a subprocess, delivered to the handler attached in
\* startClaudeCodeSession; the handler ignores a session that left the map
ProcessExit(sessionId, exitCode) ==
  /\ sessionId \in 1..Len(sessions)
  /\ sessions[sessionId].claudeCodeProcess
  /\ Commit(handleSessionExit(Pool, sessionId, exitCode))
  /\ lastOp' = IF sessionId \in activeSessionsMap
               THEN Op("handleSessionExit", "exit") ELSE lastOp

\* the 'error' event of a subprocess; its 'exit' event may still follow
ProcessError(sessionId) ==
  /\ sessionId \in 1..Len(sessions)
  /\ sessions[sessionId].claudeCodeProcess
  /\ Commit(handleSessionExit(Pool, sessionId, 1))
  /\ lastOp' = IF sessionId \in activeSessionsMap
               THEN Op("handleSessionExit", "error") ELSE lastOp

\* a slip: the slot is freed but the queue is not looked at
TerminateSessionNoPromotion(sessionId) ==
  /\ IF sessionId \notin activeSessionsMap \/ sessionId \notin claudeSessionsMap
     THEN /\ Commit(Pool)
          /\ lastOp' = Op("terminateSession", "not found")
     ELSE /\ Commit([Pool EXCEPT !.sessions[sessionId].status = "completed",
                                 !.sessions[sessionId].endTime = TRUE,
                                 !.activeSessionsMap = @ \ {sessionId},
                                 !.claudeSessionsMap = @ \ {sessionId}])
          /\ lastOp' = Op("terminateSession", "ok")

\* a slip: the session is looked up among all sessions, not in the active map
TerminateSessionAnyKnown(sessionId) ==
  /\ IF sessionId \notin 1..Len(sessions) \/ sessionId \in starting
     THEN /\ Commit(Pool)
          /\ lastOp' = Op("terminateSession", "not found")
     ELSE /\ Commit(processQueue(
                 [Pool EXCEPT !.sessions[sessionId].status = "completed",
                              !.sessions[sessionId].endTime = TRUE,
                              !.activeSessionsMap = @ \ {sessionId},
                              !.claudeSessionsMap = @ \ {sessionId}]))
          /\ lastOp' = Op("terminateSession", "ok")

TerminateSession(sessionId) ==
  /\ IF sessionId \notin activeSessionsMap \/ sessionId \notin claudeSessionsMap
     THEN /\ Commit(Pool)
          /\ lastOp' = Op("terminateSession", "not found")
     ELSE /\ Commit(processQueue(
                 [Pool EXCEPT !.sessions[sessionId].status = "completed",
                              !.sessions[sessionId].endTime = TRUE,
                              !.activeSessionsMap = @ \ {sessionId},
                              !.claudeSessionsMap = @ \ {sessionId}]))
          /\ lastOp' = Op("terminateSession", "ok")

Shutdown ==
  /\ LET stopped == activeSessionsMap \cap claudeSessionsMap
     IN Commit([Pool EXCEPT
          !.sessions = [i \in 1..Len(sessions) |->
                          IF i \in stopped
                          THEN [sessions[i] EXCEPT !.status = "completed",
                                                   !.endTime = TRUE]
                          ELSE sessions[i]],
          !.activeSessionsMap = {},
          !.claudeSessionsMap = {},
          !.promises = [r \in 1..Len(promises) |->
                          IF \E i \in 1..Len(taskQueue) : taskQueue[i].request = r
                          THEN "rejected: shutdown" ELSE promises[r]],
          !.taskQueue = <<>>])
  /\ lastOp' = Op("shutdown", "ok")

SessionIds == 1..MaxRequests

Next ==
  \/ RequestSession /\ UNCHANGED <<planVars, orchVars, memVars, storeVars, knowVars, keyVars>>
  \/ \E sessionId \in SessionIds : StartSucceeds(sessionId) /\ UNCHANGED <<planVars, orchVars, memVars, storeVars, knowVars, keyVars>>
  \/ \E sessionId \in SessionIds : StartFails(sessionId) /\ UNCHANGED <<planVars, orchVars, memVars, storeVars, knowVars, keyVars>>
  \/ \E sessionId \in SessionIds, exitCode \in {0, 1} :
       ProcessExit(sessionId, exitCode) /\ UNCHANGED <<planVars, orchVars, memVars, storeVars, knowVars, keyVars>>
  \/ \E sessionId \in SessionIds : ProcessError(sessionId) /\ UNCHANGED <<planVars, orchVars, memVars, storeVars, knowVars, keyVars>>
  \/ \E sessionId \in SessionIds : TerminateSession(sessionId) /\ UNCHANGED <<planVars, orchVars, memVars, storeVars, knowVars, keyVars>>
  \/ Shutdown /\ UNCHANGED <<planVars, orchVars, memVars, storeVars, knowVars, keyVars>>

allVars == <<vars, planVars, orchVars, memVars, storeVars, knowVars, keyVars>>

Spec == Init /\ [][Next]_allVars

\* the same pool, fed every combination of task fields
RequestAnyTask == RequestFrom(AllTasks, MaxPriorityRequests)

NextPriority ==
  \/ RequestAnyTask /\ UNCHANGED <<planVars, orchVars, memVars, storeVars, knowVars, keyVars>>
  \/ \E sessionId \in SessionIds : StartSucceeds(sessionId) /\ UNCHANGED <<planVars, orchVars, memVars, storeVars, knowVars, keyVars>>
  \/ \E sessionId \in SessionIds : StartFails(sessionId) /\ UNCHANGED <<planVars, orchVars, memVars, storeVars, knowVars, keyVars>>
  \/ \E sessionId \in SessionIds, exitCode \in {0, 1} :
       ProcessExit(sessionId, exitCode) /\ UNCHANGED <<planVars, orchVars, memVars, storeVars, knowVars, keyVars>>
  \/ \E sessionId \in SessionIds : ProcessError(sessionId) /\ UNCHANGED <<planVars, orchVars, memVars, storeVars, knowVars, keyVars>>
  \/ \E sessionId \in SessionIds : TerminateSession(sessionId) /\ UNCHANGED <<planVars, orchVars, memVars, storeVars, knowVars, keyVars>>
  \/ Shutdown /\ UNCHANGED <<planVars, orchVars, memVars, storeVars, knowVars, keyVars>>

SpecPriority == Init /\ [][NextPriority]_allVars

\* the pool under the scheduling the claims on progress assume: a start that is
\* awaited ends, and the subprocess of an active session exits
SessionEnds ==
  \E sessionId \in activeSessionsMap, exitCode \in {0, 1} :
    ProcessExit(sessionId, exitCode) /\ UNCHANGED <<planVars, orchVars, memVars, storeVars, knowVars, keyVars>>

StartEnds ==
  \E sessionId \in starting :
    (StartSucceeds(sessionId) \/ StartFails(sessionId)) /\ UNCHANGED <<planVars, orchVars, memVars, storeVars, knowVars, keyVars>>

SpecFair == Spec /\ WF_allVars(SessionEnds) /\ WF_allVars(StartEnds)

\* ----------------------------------------------------------------- planner
Projects == {"a", "b", "c"}

Range(s) == {s[i] : i \in 1..Len(s)}
Take(s, n) == SubSeq(s, 1, IF n < Len(s) THEN n ELSE Len(s))

CandidateLists == UNION {[1..n -> Projects] : n \in 0..MaxLibraries}

\* the targets of lib that are candidates themselves
buildDependencyMap(libs, graph) ==
  [lib \in Range(libs) |-> {dep \in graph[lib] : dep \in Range(libs)}]

\* a slip: 'some' in place of 'every' in the readiness test
readyLibrariesSome(libs, done, dependencyMap) ==
  LET Ready(lib) == lib \notin done /\
                    (dependencyMap[lib] = {} \/ dependencyMap[lib] \cap done # {})
  IN SelectSeq(libs, Ready)

readyLibraries(libs, done, dependencyMap) ==
  LET Ready(lib) == lib \notin done /\ dependencyMap[lib] \subseteq done
  IN SelectSeq(libs, Ready)

\* a slip: the cycle-breaking branch takes the last unassigned projects
forcedLibrariesLast(libs, done, n) ==
  LET Unassigned(lib) == lib \notin done
      remaining == SelectSeq(libs, Unassigned)
  IN SubSeq(remaining, IF Len(remaining) > n THEN Len(remaining) - n + 1 ELSE 1,
            Len(remaining))

\* the cycle-breaking branch: remaining.slice(0, maxSessions)
forcedLibraries(libs, done, n) ==
  LET Unassigned(lib) == lib \notin done
  IN Take(SelectSeq(libs, Unassigned), n)

\* one pass of the while loop of createDependencyAwarePhases
currentPhaseLibs(libs, done, graph, n) ==
  LET dependencyMap == buildDependencyMap(libs, graph)
      ready == readyLibraries(libs, done, dependencyMap)
  IN Take(IF Len(ready) = 0 THEN forcedLibraries(libs, done, n) ELSE ready, n)

PlanInit ==
  /\ libraries \in CandidateLists
  /\ maxSessions \in 1..MaxSessions
  /\ dependencies \in [Projects -> SUBSET Projects]
  /\ processed = {}
  /\ phases = <<>>
  /\ planReturned = FALSE

\* the loop body; a loop that runs on after as many phases as there are
\* candidates, plus one, is cut there
PlanPhase ==
  /\ ~planReturned
  /\ Cardinality(processed) < Len(libraries)
  /\ Len(phases) <= Len(libraries)
  /\ LET libs == currentPhaseLibs(libraries, processed, dependencies, maxSessions)
         dependencyMap == buildDependencyMap(libraries, dependencies)
     IN /\ phases' = Append(phases,
                       [phase |-> Len(phases) + 1,
                        libraries |-> libs,
                        parallelizable |-> Len(libs) > 1,
                        dependencies |-> UNION {dependencyMap[lib] : lib \in Range(libs)}])
        /\ processed' = processed \cup Range(libs)
  /\ UNCHANGED <<libraries, maxSessions, dependencies, planReturned>>

PlanReturn ==
  /\ ~planReturned
  /\ ~(Cardinality(processed) < Len(libraries))
  /\ planReturned' = TRUE
  /\ UNCHANGED <<libraries, maxSessions, dependencies, processed, phases>>

NextPlan ==
  \/ PlanPhase /\ UNCHANGED <<vars, orchVars, memVars, storeVars, knowVars, keyVars>>
  \/ PlanReturn /\ UNCHANGED <<vars, orchVars, memVars, storeVars, knowVars, keyVars>>

PoolIdle ==
  /\ maxConcurrency = 5
  /\ activeSessionsMap = {}
  /\ claudeSessionsMap = {}
  /\ taskQueue = <<>>
  /\ sessions = <<>>
  /\ starting = {}
  /\ promises = <<>>
  /\ lastOp = Op("constructor", "ok")

InitPlan == PoolIdle /\ PlanInit /\ OrchIdle /\ MemoryIdle /\ StoreIdle /\ KnowledgeIdle /\ KeysIdle

SpecPlan == InitPlan /\ [][NextPlan]_allVars

\* a slip: the phase's dependencies taken from the project graph
createSequentialPhasesByGraph(libs, graph) ==
  [index \in 1..Len(libs) |->
     [phase |-> index, libraries |-> <<libs[index]>>, parallelizable |-> FALSE,
      dependencies |-> graph[libs[index]]]]

\* the graph plays no part; it is a parameter here for the slip's sake
createSequentialPhases(libs, graph) ==
  [index \in 1..Len(libs) |->
     [phase |-> index, libraries |-> <<libs[index]>>, parallelizable |-> FALSE,
      dependencies |-> IF index > 1 THEN {libs[index - 1]} ELSE {}]]

\* planPhases with strategy 'sequential'
PlanSequential ==
  /\ ~planReturned
  /\ phases' = createSequentialPhases(libraries, dependencies)
  /\ planReturned' = TRUE
  /\ UNCHANGED <<libraries, maxSessions, dependencies, processed>>

NextSequential ==
  \/ PlanSequential /\ UNCHANGED <<vars, orchVars, memVars, storeVars, knowVars, keyVars>>

SpecSequential == InitPlan /\ [][NextSequential]_allVars

\* ------------------------------------------------------------ orchestrator
LibraryNames == <<"a", "b", "c", "d">>

\* the ways to cut libs into consecutive non-empty phases, each flagged
\* parallelizable or not
RECURSIVE PlansOf(_, _)
PlansOf(libs, number) ==
  IF Len(libs) = 0 THEN {<<>>}
  ELSE UNION {
         {<<[phase |-> number, libraries |-> Take(libs, k),
             parallelizable |-> flag, dependencies |-> {}]>> \o rest :
            flag \in BOOLEAN,
            rest \in PlansOf(SubSeq(libs, k + 1, Len(libs)), number + 1)} :
         k \in 1..Len(libs)}

OrchestrationPlans ==
  UNION {PlansOf(Take(LibraryNames, n), 1) : n \in 0..MaxPlanLibraries}

\* the <<phase, position>> of every project of the first k phases of the plan,
\* in the order of the two loops
RECURSIVE PlanRequests(_)
PlanRequests(k) ==
  IF k = 0 THEN <<>>
  ELSE PlanRequests(k - 1) \o [j \in 1..Len(phases[k].libraries) |-> <<k, j>>]

\* SessionPool.terminateSession as a function of the pool: it throws for a
\* session that is in neither map
terminateSession(p, sessionId) ==
  IF sessionId \notin p.activeSessionsMap \/ sessionId \notin p.claudeSessionsMap
  THEN [pool |-> p, threw |-> TRUE]
  ELSE [pool |-> processQueue(
                   [p EXCEPT !.sessions[sessionId].status = "completed",
                             !.sessions[sessionId].endTime = TRUE,
                             !.activeSessionsMap = @ \ {sessionId},
                             !.claudeSessionsMap = @ \ {sessionId}]),
        threw |-> FALSE]

\* a slip: no try/catch around terminateSession, so Promise.all rejects
RECURSIVE cleanupSessionsUncaught(_, _)
cleanupSessionsUncaught(p, sessionList) ==
  IF Len(sessionList) = 0 THEN [pool |-> p, warned |-> {}, threw |-> FALSE]
  ELSE LET t == terminateSession(p, Head(sessionList))
           rest == cleanupSessionsUncaught(t.pool, Tail(sessionList))
       IN [pool |-> rest.pool, warned |-> rest.warned,
           threw |-> t.threw \/ rest.threw]

\* cleanupSessions: terminateSession on every session of the list, a failure
\* logged and swallowed
RECURSIVE cleanupSessions(_, _)
cleanupSessions(p, sessionList) ==
  IF Len(sessionList) = 0 THEN [pool |-> p, warned |-> {}, threw |-> FALSE]
  ELSE LET t == terminateSession(p, Head(sessionList))
           rest == cleanupSessions(t.pool, Tail(sessionList))
       IN [pool |-> rest.pool,
           warned |-> (IF t.threw THEN {Head(sessionList)} ELSE {}) \cup rest.warned,
           threw |-> rest.threw]

\* the task executePhase builds; phase.dependencies is empty or not
taskDescriptor(phase) ==
  TaskDescriptor("feature", 50, "medium",
                 IF phase.dependencies = {} THEN <<>> ELSE <<"shared-lib">>)

Returned(success, sessionList) ==
  [state |-> "returned", success |-> success, sessions |-> sessionList]

\* the session a resolved request returned
SessionOf(request) ==
  CHOOSE sessionId \in 1..Len(sessions) : sessions[sessionId].request = request

\* the catch block of executeOrchestrationPlan: cleanup, then the failure
\* record; a cleanup that throws makes the call throw
Catch ==
  LET cleanup == cleanupSessions(Pool, allSessions)
  IN /\ Commit(cleanup.pool)
     /\ lastOp' = Op("cleanupSessions", IF cleanup.threw THEN "threw" ELSE "ok")
     /\ warned' = cleanup.warned
     /\ returned' = IF cleanup.threw
                    THEN [state |-> "threw", success |-> FALSE, sessions |-> <<>>]
                    ELSE Returned(FALSE, allSessions)
     /\ pc' = "done"
     /\ UNCHANGED <<phaseIndex, libIndex, phaseSessions, allSessions, issued>>

\* a slip: the condition of the phase wait with the flag the wrong way round
mustWaitParallel(k) ==
  phases[k].parallelizable /\ k < Len(phases)

\* whether the loop waits for phase k before it goes on
mustWait(k) ==
  ~phases[k].parallelizable /\ k < Len(phases)

\* a slip: the final wait is tied to 'every' phase being parallelizable
mustWaitForAllEvery ==
  \A k \in 1..Len(phases) : phases[k].parallelizable

\* whether the call waits for all sessions after the last phase
mustWaitForAll ==
  \E k \in 1..Len(phases) : phases[k].parallelizable

\* a slip: '>' in place of '>='
timedOutLate(count) == count > maxRetries

\* whether a poll that found a session active was the last one
timedOut(count) == count >= maxRetries

\* a slip: the loop steps over a phase
nextPhaseTwo(k) == k + 2

nextPhase(k) == k + 1

\* the loop of executeOrchestrationPlan arrives at phase k with the sessions
\* 'all' collected: it runs to the next await, or to the return
Proceed(k, all) ==
  /\ allSessions' = all
  /\ phaseSessions' = <<>>
  /\ retryCount' = 0
  /\ libIndex' = 1
  /\ IF k <= Len(phases)
     THEN /\ pc' = "loadContext"
          /\ phaseIndex' = k
          /\ returned' = returned
     ELSE /\ phaseIndex' = Len(phases) + 1
          /\ IF mustWaitForAll
             THEN pc' = "waitAll" /\ returned' = returned
             ELSE pc' = "done" /\ returned' = Returned(TRUE, all)

OrchInit ==
  /\ pc = "called"
  /\ phaseIndex = 1
  /\ libIndex = 1
  /\ phaseSessions = <<>>
  /\ allSessions = <<>>
  /\ retryCount = 0
  /\ issued = <<>>
  /\ warned = {}
  /\ returned = [state |-> "none", success |-> FALSE, sessions |-> <<>>]

\* the plan a call is given, held in 'phases'
PlanGiven ==
  /\ phases \in OrchestrationPlans
  /\ libraries = Take(LibraryNames, Len(PlanRequests(Len(phases))))
  /\ maxSessions = 1
  /\ dependencies = <<>>
  /\ processed = {}
  /\ planReturned = TRUE

\* executeOrchestrationPlan is called: up to its first await
ExecuteOrchestrationPlan ==
  /\ pc = "called"
  /\ Proceed(1, <<>>)
  /\ UNCHANGED <<vars, issued, warned>>

\* loadContext resolves: executePhase builds the task and calls requestSession
ContextLoaded ==
  /\ pc = "loadContext"
  /\ RequestFrom({taskDescriptor(phases[phaseIndex])}, Len(promises) + 1)
  /\ issued' = Append(issued, <<phaseIndex, libIndex>>)
  /\ pc' = "requestSession"
  /\ UNCHANGED <<phaseIndex, libIndex, phaseSessions, allSessions, retryCount,
                 warned, returned>>

\* loadContext throws
ContextFails ==
  /\ pc = "loadContext"
  /\ Catch
  /\ UNCHANGED retryCount

\* the promise of the awaited requestSession is settled and executePhase, then
\* executeOrchestrationPlan, run on to the next await
Settled == pc = "requestSession" /\ promises[Len(issued)] # "pending"

RequestSettled ==
  /\ Settled
  /\ IF promises[Len(issued)] = "resolved"
     THEN LET local == Append(phaseSessions, SessionOf(Len(issued)))
          IN /\ IF libIndex < Len(phases[phaseIndex].libraries)
                THEN /\ pc' = "loadContext"
                     /\ libIndex' = libIndex + 1
                     /\ phaseSessions' = local
                     /\ UNCHANGED <<phaseIndex, allSessions, retryCount, returned>>
                ELSE IF mustWait(phaseIndex)
                THEN /\ pc' = "waitPhase"
                     /\ phaseSessions' = local
                     /\ allSessions' = allSessions \o local
                     /\ retryCount' = 0
                     /\ UNCHANGED <<phaseIndex, libIndex, returned>>
                ELSE Proceed(nextPhase(phaseIndex), allSessions \o local)
             /\ UNCHANGED <<vars, issued, warned>>
     ELSE Catch /\ UNCHANGED retryCount

\* the sessions the wait in progress polls for
Waited == IF pc = "waitPhase" THEN phaseSessions ELSE allSessions

\* one tick of the interval of waitForPhaseCompletion
Poll ==
  /\ pc \in {"waitPhase", "waitAll"}
  /\ IF \A sessionId \in Range(Waited) : sessionId \notin activeSessionsMap
     THEN /\ IF pc = "waitPhase"
             THEN Proceed(nextPhase(phaseIndex), allSessions)
             ELSE /\ pc' = "done"
                  /\ returned' = Returned(TRUE, allSessions)
                  /\ retryCount' = 0
                  /\ UNCHANGED <<phaseIndex, libIndex, phaseSessions, allSessions>>
          /\ UNCHANGED <<vars, issued, warned>>
     ELSE /\ retryCount' = retryCount + 1
          /\ IF timedOut(retryCount + 1)
             THEN Catch
             ELSE UNCHANGED <<vars, pc, phaseIndex, libIndex, phaseSessions,
                              allSessions, issued, warned, returned>>

\* the events of the pool; the continuation of a settled request runs before
\* any of them
NextOrch ==
  \/ ExecuteOrchestrationPlan /\ UNCHANGED <<planVars, memVars, storeVars, knowVars, keyVars>>
  \/ ContextLoaded /\ UNCHANGED <<planVars, memVars, storeVars, knowVars, keyVars>>
  \/ ContextFails /\ UNCHANGED <<planVars, memVars, storeVars, knowVars, keyVars>>
  \/ RequestSettled /\ UNCHANGED <<planVars, memVars, storeVars, knowVars, keyVars>>
  \/ ~Settled /\ Poll /\ UNCHANGED <<planVars, memVars, storeVars, knowVars, keyVars>>
  \/ \E sessionId \in starting :
       ~Settled /\ StartSucceeds(sessionId) /\ UNCHANGED <<planVars, orchVars, memVars, storeVars, knowVars, keyVars>>
  \/ \E sessionId \in starting :
       ~Settled /\ StartFails(sessionId) /\ UNCHANGED <<planVars, orchVars, memVars, storeVars, knowVars, keyVars>>
  \/ \E sessionId \in 1..Len(sessions), exitCode \in {0, 1} :
       /\ ~Settled
       /\ ProcessExit(sessionId, exitCode)
       /\ UNCHANGED <<planVars, orchVars, memVars, storeVars, knowVars, keyVars>>
  \/ \E sessionId \in 1..Len(sessions) :
       ~Settled /\ ProcessError(sessionId) /\ UNCHANGED <<planVars, orchVars, memVars, storeVars, knowVars, keyVars>>

InitOrch == PoolIdle /\ PlanGiven /\ OrchInit /\ MemoryIdle /\ StoreIdle /\ KnowledgeIdle /\ KeysIdle

SpecOrch == InitOrch /\ [][NextOrch]_allVars

\* --------------------------------------------- the plans of the strategies

RECURSIVE chunkArray(_, _)
chunkArray(array, chunkSize) ==
  IF Len(array) = 0 THEN <<>>
  ELSE <<Take(array, chunkSize)>> \o
       chunkArray(SubSeq(array, chunkSize + 1, Len(array)), chunkSize)

createParallelPhases(libs, n) ==
  LET chunks == chunkArray(libs, n)
  IN [index \in 1..Len(chunks) |->
        [phase |-> index, libraries |-> chunks[index], parallelizable |-> TRUE,
         dependencies |-> {}]]

\* the loop of createDependencyAwarePhases from the phase of that number on,
\* for candidates that are all different
RECURSIVE dependencyAwareFrom(_, _, _, _, _)
dependencyAwareFrom(libs, done, graph, n, number) ==
  IF ~(Cardinality(done) < Len(libs)) THEN <<>>
  ELSE LET phaseLibs == currentPhaseLibs(libs, done, graph, n)
           dependencyMap == buildDependencyMap(libs, graph)
       IN <<[phase |-> number,
             libraries |-> phaseLibs,
             parallelizable |-> Len(phaseLibs) > 1,
             dependencies |-> UNION {dependencyMap[lib] : lib \in Range(phaseLibs)}]>>
          \o dependencyAwareFrom(libs, done \cup Range(phaseLibs), graph, n, number + 1)

createDependencyAwarePhases(libs, n, graph) ==
  dependencyAwareFrom(libs, {}, graph, n, 1)

Strategies == {"sequential", "parallel", "dependency-aware"}

planPhases(libs, strategy, n, graph) ==
  CASE strategy = "sequential" -> createSequentialPhases(libs, graph)
    [] strategy = "parallel" -> createParallelPhases(libs, n)
    [] OTHER -> createDependencyAwarePhases(libs, n, graph)

\* no project of the set depends, through the set, on itself
RECURSIVE NoCycle(_, _)
NoCycle(nodes, graph) ==
  \/ nodes = {}
  \/ \E lib \in nodes :
       /\ graph[lib] \cap nodes = {}
       /\ NoCycle(nodes \ {lib}, graph)

\* the plan a call is given is one that createOrchestrationPlan built, for
\* some strategy, from candidates whose dependencies have no cycle; the two
\* strategies that never read the project graph are given the one without
\* dependencies
PlanBuilt ==
  /\ \E n \in 0..MaxBuiltLibraries : libraries = Take(LibraryNames, n)
  /\ maxSessions \in 1..MaxSessions
  /\ dependencies \in [Range(libraries) -> SUBSET Range(libraries)]
  /\ NoCycle(Range(libraries), dependencies)
  /\ \E strategy \in Strategies :
       /\ strategy # "dependency-aware" =>
            dependencies = [lib \in Range(libraries) |-> {}]
       /\ phases = planPhases(libraries, strategy, maxSessions, dependencies)
  /\ processed = {}
  /\ planReturned = TRUE

InitOrchBuilt == PoolIdle /\ PlanBuilt /\ OrchInit /\ MemoryIdle /\ StoreIdle /\ KnowledgeIdle /\ KeysIdle

SpecOrchBuilt == InitOrchBuilt /\ [][NextOrch]_allVars

\* ---------------------------------------------------------- working memory
MAX_ENTRIES_PER_TYPE == 20

\* the contents given to addEntry; a content may be the empty string
Contents == {"", "x", "y"}

newMemory ==
  [lastUpdated |-> now, currentTodos |-> <<>>, recentChanges |-> <<>>,
   openQuestions |-> <<>>, blockedItems |-> <<>>, recentHandoffs |-> <<>>,
   currentContext |-> <<>>]

\* getWorkingMemory: the cached record, else the one read from the file, else a
\* new one, which is cached and saved at once
getWorkingMemory ==
  IF memoryCache # <<>> THEN memoryCache[1]
  ELSE IF memoryFile # <<>> THEN memoryFile[1]
  ELSE newMemory

createsMemory == memoryCache = <<>> /\ memoryFile = <<>>

\* a slip: push() in place of unshift()
UnshiftAtEnd(list, entry) == Take(Append(list, entry), MAX_ENTRIES_PER_TYPE)

\* list.unshift(entry) followed by list.slice(0, MAX_ENTRIES_PER_TYPE)
Unshift(list, entry) == Take(<<entry>> \o list, MAX_ENTRIES_PER_TYPE)

\* the switch of addEntry and the update of lastUpdated
addEntryAllTodos(memory, entry) ==
  [memory EXCEPT
     !.currentTodos =
        Unshift(@, [type |-> entry.type, content |-> entry.content, timestamp |-> now]),
     !.lastUpdated = now]

addEntry(memory, entry) ==
  LET timestampedEntry ==
        [type |-> entry.type, content |-> entry.content, timestamp |-> now]
      Unfinished(todo) == todo.content # "" /\ todo.content # entry.content
      routed ==
        CASE entry.type = "todo" ->
               [memory EXCEPT !.currentTodos = Unshift(@, timestampedEntry)]
          [] entry.type = "completed" ->
               [memory EXCEPT !.currentTodos = SelectSeq(@, Unfinished),
                              !.recentChanges = Unshift(@, timestampedEntry)]
          [] entry.type = "blocked" ->
               [memory EXCEPT !.blockedItems = Unshift(@, timestampedEntry)]
          [] entry.type = "question" ->
               [memory EXCEPT !.openQuestions = Unshift(@, timestampedEntry)]
          [] entry.type = "change" ->
               [memory EXCEPT !.recentChanges = Unshift(@, timestampedEntry)]
          [] entry.type = "decision" ->
               [memory EXCEPT !.recentChanges = Unshift(@, timestampedEntry)]
          [] OTHER -> memory
  IN [routed EXCEPT !.lastUpdated = now]

\* the three filters of cleanupOldEntries
cleanupOldEntries(memory, hoursOld) ==
  LET cutoffTime == now - hoursOld
      Recent(entry) == entry.timestamp > cutoffTime
  IN [memory EXCEPT !.currentTodos = SelectSeq(@, Recent),
                    !.recentChanges = SelectSeq(@, Recent),
                    !.openQuestions = SelectSeq(@, Recent)]

\* a method that gets the memory, changes it to 'changed' and calls
\* saveWorkingMemory; writeOk tells whether writeFileSync succeeds in this
\* call. The save of a newly created memory comes before the change.
Mutate(name, changed, writeOk) ==
  IF createsMemory /\ ~writeOk
  THEN /\ memoryCache' = <<newMemory>>
       /\ memoryFile' = memoryFile
       /\ memOp' = Op(name, "threw")
  ELSE /\ memoryCache' = <<changed>>
       /\ memoryFile' = IF writeOk THEN <<changed>> ELSE memoryFile
       /\ memOp' = Op(name, IF writeOk THEN "ok" ELSE "threw")

Calls ==
  added["todo"] + added["completed"] + added["blocked"] + added["question"] +
  added["change"] + added["decision"]

AddEntryFrom(types, contents, writes, maxCalls) ==
  /\ Calls < maxCalls
  /\ \E type \in types, content \in contents, writeOk \in writes :
       /\ Mutate("addEntry",
                 addEntry(getWorkingMemory, [type |-> type, content |-> content]),
                 writeOk)
       /\ added' = [added EXCEPT ![type] = @ + 1]
  /\ UNCHANGED now

AddEntry == AddEntryFrom(EntryTypes, Contents, BOOLEAN, MaxEntryCalls)

CleanupOldEntries ==
  /\ \E hoursOld \in 1..MaxAge, writeOk \in BOOLEAN :
       Mutate("cleanupOldEntries",
              cleanupOldEntries(getWorkingMemory, hoursOld), writeOk)
  /\ UNCHANGED <<now, added>>

\* an hour passes
Tick ==
  /\ now < MaxTime
  /\ now' = now + 1
  /\ UNCHANGED <<memoryCache, memoryFile, added, memOp>>

NextMemory ==
  \/ AddEntry /\ UNCHANGED <<vars, planVars, orchVars, storeVars, knowVars, keyVars>>
  \/ CleanupOldEntries /\ UNCHANGED <<vars, planVars, orchVars, storeVars, knowVars, keyVars>>
  \/ Tick /\ UNCHANGED <<vars, planVars, orchVars, storeVars, knowVars, keyVars>>

InitMemory == PoolIdle /\ PlanIdle /\ OrchIdle /\ MemoryIdle /\ StoreIdle /\ KnowledgeIdle /\ KeysIdle

SpecMemory == InitMemory /\ [][NextMemory]_allVars

\* the lists that fill up: the n-th entry of a type carries the content n
CapTypes == {"todo", "blocked", "question", "change"}

AddNumberedEntry ==
  \E type \in CapTypes :
    AddEntryFrom({type}, {ToString(added[type] + 1)}, {TRUE}, MaxCapCalls)

NextMemoryCap ==
  \/ AddNumberedEntry /\ UNCHANGED <<vars, planVars, orchVars, storeVars, knowVars, keyVars>>

SpecMemoryCap == InitMemory /\ [][NextMemoryCap]_allVars

\* ---------------------------------------------------- handoff narrative
MAX_HANDOFFS == 5
MAX_CONTEXT_LENGTH == 5000

\* A text is the sequence of its sections, the pieces between blank lines; a
\* section is known by the handoff and the part it was formatted from, and
\* by its length in characters.
Section(session, part, folded, length) ==
  [session |-> session, part |-> part, folded |-> folded, length |-> length]

RECURSIVE SumLengths(_)
SumLengths(sections) ==
  IF Len(sections) = 0 THEN 0
  ELSE Head(sections).length + SumLengths(Tail(sections))

\* text.length: the sections and the two newlines between neighbours
TextLength(sections) ==
  IF Len(sections) = 0 THEN 0 ELSE SumLengths(sections) + 2 * (Len(sections) - 1)

\* the handoffs given to addHandoff, each field the length of the text
\* formatHandoffSummary makes of it (0: an empty list, or no status): a brief
\* one, a full one that fits the narrative once, and one whose task
\* description alone is longer than the narrative may be
Handoffs ==
  {[header |-> 100, completed |-> 0, blocked |-> 0, todos |-> 0,
    nextSteps |-> 0, status |-> 0],
   [header |-> 100, completed |-> 1500, blocked |-> 0, todos |-> 1500,
    nextSteps |-> 1500, status |-> 40],
   [header |-> 6000, completed |-> 0, blocked |-> 0, todos |-> 0,
    nextSteps |-> 0, status |-> 0]}

HandoffParts == <<"completed", "blocked", "todos", "nextSteps", "status">>

\* formatHandoffSummary: the header, a section for each non-empty list, and
\* the status lines; the blank line a list section ends with separates it
\* from the next
RECURSIVE formatParts(_, _)
formatParts(handoff, parts) ==
  IF Len(parts) = 0 THEN <<>>
  ELSE (IF handoff[Head(parts)] > 0
        THEN <<Section(handoff.sessionId, Head(parts), 0, handoff[Head(parts)])>>
        ELSE <<>>) \o formatParts(handoff, Tail(parts))

formatHandoffSummary(handoff) ==
  <<Section(handoff.sessionId, "header", 0, handoff.header)>> \o
  formatParts(handoff, HandoffParts)

\* a slip: the new content is put in front of the narrative
combinedPrepend(current, newContent) == newContent \o current

\* `${current}\n\n${newContent}`.trim()
combined(current, newContent) == current \o newContent

\* a slip: slice(-2)
recentSectionsTwo(sections) ==
  SubSeq(sections, IF Len(sections) > 2 THEN Len(sections) - 1 ELSE 1, Len(sections))

\* sections.slice(-3)
recentSections(sections) ==
  SubSeq(sections, IF Len(sections) > 3 THEN Len(sections) - 2 ELSE 1, Len(sections))

\* sections.slice(0, -3)
olderSections(sections) ==
  SubSeq(sections, 1, IF Len(sections) > 3 THEN Len(sections) - 3 ELSE 0)

\* extractKeyPoints(...).join(', '): a '**Completed**:' heading among the
\* older sections matches the first pattern and leaves the point '**:'; at
\* most two are taken
keyPointsLength(older) ==
  LET Completed(section) == section.part = "completed"
      points == Len(SelectSeq(older, Completed))
  IN IF points = 0 THEN 0 ELSE IF points = 1 THEN 3 ELSE 8

\* the synthetic summary: its three lines, without the blank line after them
summarySection(older) ==
  Section(0, "summary", Len(older),
          27 + (29 + (IF Len(older) < 10 THEN 1 ELSE 2)) + 14 + keyPointsLength(older))

updateCurrentContext(current, newContent) ==
  LET sections == combined(current, newContent)
  IN IF TextLength(sections) <= MAX_CONTEXT_LENGTH THEN sections
     ELSE (IF Len(olderSections(sections)) > 0
           THEN <<summarySection(olderSections(sections))>> ELSE <<>>)
          \o recentSections(sections)

addHandoff(memory, handoff) ==
  [memory EXCEPT
     !.recentHandoffs = Take(<<handoff>> \o @, MAX_HANDOFFS),
     !.currentContext = updateCurrentContext(@, formatHandoffSummary(handoff)),
     !.lastUpdated = now]

AddHandoff ==
  /\ added["handoff"] < MaxHandoffCalls
  /\ \E fields \in Handoffs, writeOk \in BOOLEAN :
       LET handoff ==
             [sessionId |-> added["handoff"] + 1, header |-> fields.header,
              completed |-> fields.completed, blocked |-> fields.blocked,
              todos |-> fields.todos, nextSteps |-> fields.nextSteps,
              status |-> fields.status]
       IN Mutate("addHandoff", addHandoff(getWorkingMemory, handoff), writeOk)
  /\ added' = [added EXCEPT !["handoff"] = @ + 1]
  /\ UNCHANGED now

NextHandoff ==
  \/ AddHandoff /\ UNCHANGED <<vars, planVars, orchVars, storeVars, knowVars, keyVars>>

SpecHandoff == InitMemory /\ [][NextHandoff]_allVars

\* ------------------------------------------------- hierarchical knowledge

\* titles and names of the records; "" is what the capture of a "DECISION:"
\* or "PATTERN:" line with nothing after it yields
Titles == {"", "A", "B"}

\* part_003:76-77, 113-114, 227
recordId(scope) == scope \o "-" \o ToString(now)

\* a Decision has a title and no name, a Pattern a name and no title; an
\* absent field is "", falsy like undefined
Decision(scope, title) == [id |-> recordId(scope), title |-> title, name |-> ""]
Pattern(scope, name) == [id |-> recordId(scope), title |-> "", name |-> name]

\* item.title || item.name || item.id
keyOf(item) ==
  IF item.title # "" THEN item.title
  ELSE IF item.name # "" THEN item.name
  ELSE item.id

Reverse(s) == [i \in 1..Len(s) |-> s[Len(s) + 1 - i]]

\* the filter of prioritizeLibraryKnowledge: the items whose key was not seen
RECURSIVE unseen(_, _)
unseen(items, seen) ==
  IF items = <<>> THEN <<>>
  ELSE IF keyOf(Head(items)) \in seen THEN unseen(Tail(items), seen)
  ELSE <<Head(items)>> \o unseen(Tail(items), seen \cup {keyOf(Head(items))})

prioritizeWorkspaceKnowledge(workspaceItems, libraryItems) ==
  unseen(workspaceItems \o libraryItems, {})

prioritizeLibraryKnowledge(workspaceItems, libraryItems) ==
  Reverse(unseen(Reverse(workspaceItems \o libraryItems), {}))

getWorkspaceContextLocally ==
  [decisions |-> decisionsFile["workspace"], patterns |-> patternsFile["workspace"]]

getLibraryContextLocally(library) ==
  [decisions |-> decisionsFile[library], patterns |-> patternsFile[library]]

\* the session histories, which nothing here records, are left out
mergeContexts(workspaceContext, libraryContext, library) ==
  [library |-> library,
   workspace |-> workspaceContext,
   librarySpecific |-> libraryContext,
   inheritedDecisions |-> workspaceContext.decisions \o libraryContext.decisions,
   inheritedPatterns |-> workspaceContext.patterns \o libraryContext.patterns,
   decisions |-> prioritizeLibraryKnowledge(workspaceContext.decisions,
                                            libraryContext.decisions),
   patterns |-> prioritizeLibraryKnowledge(workspaceContext.patterns,
                                           libraryContext.patterns)]

RECURSIVE SumOver(_, _)
SumOver(f, keys) ==
  IF keys = {} THEN 0
  ELSE LET key == CHOOSE k \in keys : TRUE
       IN Len(f[key]) + SumOver(f, keys \ {key})

\* the records written by the methods
Records == SumOver(decisionsFile, Scopes) + SumOver(patternsFile, StoreLibraries)

\* recordDecisionLocally, recordWorkspaceDecisionLocally, recordPatternLocally:
\* push on the list of the scope's file; a failing write is caught and
\* reported as false
recordLocallyFirst(name, file, otherFile, scope, record, writeOk) ==
  /\ file' = IF writeOk THEN [file EXCEPT ![scope] = <<record>> \o @] ELSE file
  /\ storeOp' = Op(name, IF writeOk THEN "true" ELSE "false")
  /\ UNCHANGED <<otherFile, view>>

recordLocally(name, file, otherFile, scope, record, writeOk) ==
  /\ file' = IF writeOk THEN [file EXCEPT ![scope] = Append(@, record)] ELSE file
  /\ storeOp' = Op(name, IF writeOk THEN "true" ELSE "false")
  /\ UNCHANGED <<otherFile, view>>

\* recordDecision, by its local storage
RecordDecision ==
  /\ Records < MaxRecords
  /\ \E library \in StoreLibraries, title \in Titles, writeOk \in BOOLEAN :
       recordLocally("recordDecision", decisionsFile, patternsFile, library,
                     Decision(library, title), writeOk)

\* recordWorkspaceDecision, by its local storage
RecordWorkspaceDecision ==
  /\ Records < MaxRecords
  /\ \E title \in Titles, writeOk \in BOOLEAN :
       recordLocally("recordWorkspaceDecision", decisionsFile, patternsFile,
                     "workspace", Decision("workspace", title), writeOk)

\* recordPattern, by its local storage
RecordPattern ==
  /\ Records < MaxRecords
  /\ \E library \in StoreLibraries, name \in Titles, writeOk \in BOOLEAN :
       recordLocally("recordPattern", patternsFile, decisionsFile, library,
                     Pattern(library, name), writeOk)

\* getHierarchicalContext, by the local storage
GetHierarchicalContext ==
  /\ \E library \in StoreLibraries :
       view' = <<mergeContexts(getWorkspaceContextLocally,
                               getLibraryContextLocally(library), library)>>
  /\ storeOp' = Op("getHierarchicalContext", "ok")
  /\ UNCHANGED <<decisionsFile, patternsFile>>

\* the workspace's patterns.json is written by hand or by the MCP server
StoreInit ==
  /\ decisionsFile = [scope \in Scopes |-> <<>>]
  /\ \E names \in {<<>>, <<"A">>} :
       patternsFile =
         [scope \in Scopes |->
            IF scope = "workspace"
            THEN [i \in 1..Len(names) |-> Pattern("workspace", names[i])]
            ELSE <<>>]
  /\ view = <<>>
  /\ storeOp = Op("constructor", "ok")

NextStore ==
  \/ RecordDecision /\ UNCHANGED <<vars, planVars, orchVars, memVars, knowVars, keyVars>>
  \/ RecordWorkspaceDecision /\ UNCHANGED <<vars, planVars, orchVars, memVars, knowVars, keyVars>>
  \/ RecordPattern /\ UNCHANGED <<vars, planVars, orchVars, memVars, knowVars, keyVars>>
  \/ GetHierarchicalContext /\ UNCHANGED <<vars, planVars, orchVars, memVars, knowVars, keyVars>>
  \/ now < MaxStoreTime /\ Tick /\ UNCHANGED <<vars, planVars, orchVars, storeVars, knowVars, keyVars>>

InitStore == PoolIdle /\ PlanIdle /\ OrchIdle /\ MemoryIdle /\ StoreInit /\ KnowledgeIdle /\ KeysIdle

SpecStore == InitStore /\ [][NextStore]_allVars

\* ------------------------------------------------------ session knowledge

\* "partial" is handled as "success" is by everything below
Outcomes == {"success", "failed"}

emptyKnowledge ==
  [patterns |-> <<>>, decisions |-> <<>>, solutions |-> <<>>, pitfalls |-> <<>>,
   crossLibraryLearnings |-> <<>>]

\* what distillSessionKnowledge finds in a conversation: nothing, or one use
\* of a code pattern
Distilled ==
  {emptyKnowledge, [emptyKnowledge EXCEPT !.patterns = <<"async/await">>]}

createEmptyKnowledgeBase ==
  [recentSessions |-> <<>>, accumulatedKnowledge |-> emptyKnowledge,
   totalSessionCount |-> 0, lastCompressionDate |-> now]

loadLibraryKnowledge ==
  IF knowledgeFile = <<>> THEN createEmptyKnowledgeBase ELSE knowledgeFile[1]

createSessionSummary(sessionId, outcome) ==
  [id |-> sessionId, date |-> now, taskType |-> "feature", outcome |-> outcome]

mergeKnowledgeReplacing(existing, additional) == additional

mergeKnowledge(existing, additional) ==
  [patterns |-> existing.patterns \o additional.patterns,
   decisions |-> existing.decisions \o additional.decisions,
   solutions |-> existing.solutions \o additional.solutions,
   pitfalls |-> existing.pitfalls \o additional.pitfalls,
   crossLibraryLearnings |->
     existing.crossLibraryLearnings \o additional.crossLibraryLearnings]

IsFailed(session) == session.outcome = "failed"

extractKnowledgeFromSessions(summaries) ==
  [emptyKnowledge EXCEPT
     !.decisions =
        [i \in 1..Len(summaries) |->
           [decision |-> summaries[i].outcome, rationale |-> summaries[i].taskType,
            date |-> summaries[i].date]],
     !.pitfalls =
        LET failed == SelectSeq(summaries, IsFailed)
        IN [i \in 1..Len(failed) |-> [issue |-> failed[i].taskType]]]

updateLibraryKnowledge(knowledge, sessionSummary, distilledKnowledge) ==
  [knowledge EXCEPT
     !.recentSessions = <<sessionSummary>> \o @,
     !.totalSessionCount = @ + 1,
     !.accumulatedKnowledge = mergeKnowledge(@, distilledKnowledge)]

compressOldSessions(knowledge, maxRecentSessions) ==
  LET sessionsToCompress ==
        SubSeq(knowledge.recentSessions, maxRecentSessions + 1,
               Len(knowledge.recentSessions))
  IN [knowledge EXCEPT
        !.accumulatedKnowledge =
           mergeKnowledge(@, extractKnowledgeFromSessions(sessionsToCompress)),
        !.recentSessions = Take(@, maxRecentSessions),
        !.lastCompressionDate = now]

Call(name, arg, result) == [op |-> name, arg |-> arg, result |-> result]

\* persistSessionKnowledge: the error of a failing write is caught and logged
PersistFrom(outcomes, distilleds, writes, maxCalls) ==
  /\ persisted < maxCalls
  /\ persisted' = persisted + 1
  /\ \E outcome \in outcomes, distilled \in distilleds, writeOk \in writes :
       IF writeOk
       THEN /\ knowledgeFile' =
                 <<updateLibraryKnowledge(loadLibraryKnowledge,
                     createSessionSummary(persisted + 1, outcome), distilled)>>
            /\ knowOp' = Call("persistSessionKnowledge", persisted + 1, "ok")
       ELSE /\ knowledgeFile' = knowledgeFile
            /\ knowOp' = Call("persistSessionKnowledge", persisted + 1, "logged")

PersistSessionKnowledge == PersistFrom(Outcomes, Distilled, BOOLEAN, MaxSummaries)

\* compressOldSessions: returns early within the cap; a failing write throws
CompressFrom(keeps, writes) ==
  /\ \E maxRecentSessions \in keeps, writeOk \in writes :
       IF Len(loadLibraryKnowledge.recentSessions) <= maxRecentSessions
       THEN /\ knowledgeFile' = knowledgeFile
            /\ knowOp' = Call("compressOldSessions", maxRecentSessions, "ok")
       ELSE IF writeOk
       THEN /\ knowledgeFile' =
                 <<compressOldSessions(loadLibraryKnowledge, maxRecentSessions)>>
            /\ knowOp' = Call("compressOldSessions", maxRecentSessions, "ok")
       ELSE /\ knowledgeFile' = knowledgeFile
            /\ knowOp' = Call("compressOldSessions", maxRecentSessions, "threw")
  /\ UNCHANGED persisted

CompressOldSessions == CompressFrom(0..MaxKeep, BOOLEAN)

NextKnowledge ==
  \/ PersistSessionKnowledge /\ UNCHANGED <<vars, planVars, orchVars, memVars, storeVars, keyVars>>
  \/ CompressOldSessions /\ UNCHANGED <<vars, planVars, orchVars, memVars, storeVars, keyVars>>
  \/ Tick /\ UNCHANGED <<vars, planVars, orchVars, storeVars, knowVars, keyVars>>

InitKnowledge == PoolIdle /\ PlanIdle /\ OrchIdle /\ MemoryIdle /\ StoreIdle /\ KnowledgeIdle /\ KeysIdle

SpecKnowledge == InitKnowledge /\ [][NextKnowledge]_allVars

\* the default of maxRecentSessions
DefaultMaxRecentSessions == 10

\* the sessions of a library ending one after the other, every write succeeding
PersistNextSession == PersistFrom(Outcomes, {emptyKnowledge}, {TRUE}, MaxCapSummaries)

\* compressOldSessions(library), which nothing of the repository calls
CompressByDefault == CompressFrom({DefaultMaxRecentSessions}, {TRUE})

NextKnowledgeCap ==
  \/ PersistNextSession /\ UNCHANGED <<vars, planVars, orchVars, memVars, storeVars, keyVars>>
  \/ CompressByDefault /\ UNCHANGED <<vars, planVars, orchVars, memVars, storeVars, keyVars>>

SpecKnowledgeCap == InitKnowledge /\ [][NextKnowledgeCap]_allVars

\* ---------------------------------- the manager of several working memories
\* getWorkingMemory(library): the cached record, else the one read from the
\* library's file (rawMemory.library || library), else a new one
getWorkingMemoryOf(library) ==
  IF cacheOf[library] # <<>> THEN cacheOf[library][1]
  ELSE IF fileOf[getMemoryPath(library)] # <<>> THEN fileOf[getMemoryPath(library)][1]
  ELSE [library |-> library] @@ newMemory

\* addEntry(library, {type: 'todo', content: 'x'}): the memory is cached
\* under the library's name and saved under its path
AddEntryToLibrary ==
  /\ keyed < MaxKeyedCalls
  /\ \E library \in ProjectNames :
       LET changed == addEntry(getWorkingMemoryOf(library),
                               [type |-> "todo", content |-> "x"])
       IN /\ cacheOf' = [cacheOf EXCEPT ![library] = <<changed>>]
          /\ fileOf' = [fileOf EXCEPT ![getMemoryPath(library)] = <<changed>>]
          /\ keyOp' = [op |-> "addEntry", library |-> library]
  /\ keyed' = keyed + 1

NextKeys ==
  \/ AddEntryToLibrary /\ UNCHANGED <<vars, planVars, orchVars, memVars, storeVars, knowVars>>

InitKeys == PoolIdle /\ PlanIdle /\ OrchIdle /\ MemoryIdle /\ StoreIdle /\ KnowledgeIdle /\ KeysIdle

SpecKeys == InitKeys /\ [][NextKeys]_allVars

TypeOK ==
  /\ maxConcurrency \in 1..MaxLimit
  /\ activeSessionsMap \subseteq 1..Len(sessions)
  /\ claudeSessionsMap = activeSessionsMap
  /\ starting \subseteq 1..Len(sessions)
  /\ \A i \in 1..Len(sessions) :
       sessions[i].status \in {"pending", "active", "completed", "failed"}
  /\ \A r \in 1..Len(promises) :
       promises[r] \in {"pending", "resolved", "rejected: start", "rejected: shutdown"}


\* ------------------------------------------------------------------ claims
QueueIndices == 1..Len(taskQueue)
Ended(status) == status \in {"completed", "failed"}

\* C1: the number of sessions in the active set never exceeds maxConcurrency.
C1_ActiveWithinLimit == Cardinality(activeSessionsMap) <= maxConcurrency

\* C2: once the pool has handled a termination and no start is in flight, it
\* does not hold both a queued request and a free slot.
C2_NoQueuedRequestBesideFreeSlot ==
  starting = {} => (taskQueue = <<>> \/ ~hasAvailableSlot(Pool))

\* a step of processQueue that takes a request off the queue and starts it
Admits(request) ==
  /\ Len(sessions') = Len(sessions) + 1
  /\ sessions'[Len(sessions')].request = request
  /\ \E i \in QueueIndices : taskQueue[i].request = request
  /\ \A i \in 1..Len(taskQueue') : taskQueue'[i].request # request

\* C3: queued requests are started in descending order of score: whenever a
\* request is taken off the queue to be started, no request left waiting has a
\* higher score, and none of equal score arrived before it.
C3_StartedInPriorityOrder ==
  [][\A i \in QueueIndices :
       Admits(taskQueue[i].request) =>
         \A j \in QueueIndices :
           \/ taskQueue[j].priority < taskQueue[i].priority
           \/ /\ taskQueue[j].priority = taskQueue[i].priority
              /\ taskQueue[j].request >= taskQueue[i].request]_vars

\* limit 1, requests 2, 3, 4 queued behind the busy slot, request 2 with score
\* 10 and request 4 with score 50: the slot freed, request 3 was started first,
\* and request 4 now waits ahead of request 2
C3_Witness ==
  /\ maxConcurrency = 1
  /\ lastOp.op = "handleSessionExit"
  /\ Len(sessions) = 2
  /\ sessions[1].request = 1 /\ sessions[2].request = 3
  /\ Len(taskQueue) = 2
  /\ taskQueue[1].request = 4 /\ taskQueue[1].priority = 50
  /\ taskQueue[2].request = 2 /\ taskQueue[2].priority = 10

\* C4: the pending queue is sorted by non-increasing score, and requests of
\* equal score are in arrival order.
C4_QueueSortedStable ==
  \A i, j \in QueueIndices :
    i < j => \/ taskQueue[i].priority > taskQueue[j].priority
             \/ /\ taskQueue[i].priority = taskQueue[j].priority
                /\ taskQueue[i].request < taskQueue[j].request

\* after a dequeue, two requests of equal score wait in arrival order, the
\* request started ahead of them having arrived last
C4_Witness ==
  /\ Len(sessions) = 2
  /\ sessions[2].request = 4
  /\ Len(taskQueue) = 2
  /\ taskQueue[1].priority = taskQueue[2].priority
  /\ taskQueue[1].request = 2 /\ taskQueue[2].request = 3

\* C5: a queued request's score is task.priority, plus 10 for a non-empty
\* crossLibraryDependencies, plus 5 for 'high' complexity, plus 20 for 'bug-fix'.
C5_ScoreFormula ==
  \A i \in QueueIndices :
    LET task == taskQueue[i].task
    IN taskQueue[i].priority =
         task.priority
         + (IF task.crossLibraryDependencies # <<>> THEN 10 ELSE 0)
         + (IF task.estimatedComplexity = "high" THEN 5 ELSE 0)
         + (IF task.type = "bug-fix" THEN 20 ELSE 0)

\* a request with all three bonuses is queued
C5_Witness ==
  \E i \in QueueIndices :
    /\ taskQueue[i].task.type = "bug-fix"
    /\ taskQueue[i].task.estimatedComplexity = "high"
    /\ taskQueue[i].task.crossLibraryDependencies # <<>>
    /\ taskQueue[i].priority = taskQueue[i].task.priority + 35

SessionIndices == 1..Len(sessions)
\* a session whose subprocess never started
FailedToStart(i) == sessions[i].status = "failed" /\ ~sessions[i].claudeCodeProcess

\* C6: a failed start marks the instance failed and rejects the caller; the
\* instance never is in the active set, no slot is consumed, and the request is
\* neither started again nor put on the queue.
C6_FailedStartIsFinal ==
  [][/\ \A i \in starting :
          (i \notin starting' /\ ~sessions'[i].claudeCodeProcess) =>
            /\ sessions'[i].status = "failed"
            /\ sessions'[i].endTime
            /\ promises'[sessions[i].request] = "rejected: start"
            /\ activeSessionsMap' = activeSessionsMap
            /\ taskQueue' = taskQueue
            /\ Len(sessions') = Len(sessions)
     /\ \A i \in SessionIndices :
          FailedToStart(i) =>
            /\ sessions'[i] = sessions[i]
            /\ i \notin activeSessionsMap'
            /\ i \notin starting'
            /\ promises'[sessions[i].request] = "rejected: start"
            /\ \A k \in 1..Len(taskQueue') : taskQueue'[k].request # sessions[i].request
            /\ \A j \in 1..Len(sessions') :
                 sessions'[j].request = sessions[i].request => j = i]_vars

\* a request taken off the queue failed to start while another session runs
\* and another request waits
C6_Witness ==
  /\ lastOp = Op("spawnSession", "failed")
  /\ \E i \in SessionIndices : FailedToStart(i) /\ sessions[i].request > 2
  /\ activeSessionsMap # {}
  /\ taskQueue # <<>>

\* C7: terminateSession on an active session marks it completed with an endTime,
\* takes it alone out of the active set, and then admits the head of the queue
\* exactly as the exit of the session with code 0 would.
C7_TerminateActive ==
  [][\A id \in activeSessionsMap :
       TerminateSession(id) =>
         /\ lastOp' = Op("terminateSession", "ok")
         /\ sessions'[id].status = "completed"
         /\ sessions'[id].endTime
         /\ activeSessionsMap' = activeSessionsMap \ {id}
         /\ Pool' = handleSessionExit(Pool, id, 0)
         /\ IF taskQueue # <<>> /\ Cardinality(activeSessionsMap) - 1 < maxConcurrency
            THEN /\ Admits(taskQueue[1].request)
                 /\ taskQueue' = Tail(taskQueue)
                 /\ \A j \in QueueIndices : taskQueue[j].priority <= taskQueue[1].priority
            ELSE /\ taskQueue' = taskQueue
                 /\ Len(sessions') = Len(sessions)]_vars

\* a terminated session is completed and out of the active set, and the request
\* that waited with the higher score is being started in its place
C7_Witness ==
  /\ lastOp = Op("terminateSession", "ok")
  /\ maxConcurrency = 1
  /\ Len(sessions) = 2
  /\ sessions[1].status = "completed" /\ sessions[1].endTime
  /\ activeSessionsMap = {}
  /\ starting = {2}
  /\ sessions[2].request = 3
  /\ Len(taskQueue) = 1 /\ taskQueue[1].request = 2

\* C8: terminateSession with an id that is not in the active set fails with the
\* not-found error and changes neither the active set, nor the queue, nor any
\* session.
C8_TerminateInactive ==
  [][\A id \in SessionIds :
       (id \notin activeSessionsMap /\ TerminateSession(id)) =>
         /\ lastOp' = Op("terminateSession", "not found")
         /\ UNCHANGED <<activeSessionsMap, claudeSessionsMap, taskQueue, sessions,
                        starting, promises>>]_vars

\* the call failed while a session that ended earlier is known, another one is
\* active and a request waits
C8_Witness ==
  /\ lastOp = Op("terminateSession", "not found")
  /\ \E i \in SessionIndices : Ended(sessions[i].status)
  /\ activeSessionsMap # {}
  /\ taskQueue # <<>>

\* C9: when shutdown completes the active set and the queue are empty, every
\* request that waited is rejected with the shutdown error and none is started,
\* and no session becomes active afterwards from work begun before the shutdown.
C9_ShutdownIsTotal ==
  [][/\ Shutdown =>
          /\ activeSessionsMap' = {}
          /\ taskQueue' = <<>>
          /\ \A k \in QueueIndices :
               /\ promises'[taskQueue[k].request] = "rejected: shutdown"
               /\ \A j \in 1..Len(sessions') :
                    sessions'[j].request # taskQueue[k].request
     /\ lastOp.op = "shutdown" => activeSessionsMap' = {}]_vars

\* C10: a session's status only moves forward along pending, active, completed
\* or failed: once completed or failed it never changes, and no session is ever
\* dropped or goes back to pending.
C10_StatusMonotonic ==
  [][/\ Len(sessions') >= Len(sessions)
     /\ \A i \in SessionIndices :
          /\ Ended(sessions[i].status) => sessions'[i].status = sessions[i].status
          /\ sessions[i].status = "active" => sessions'[i].status # "pending"]_vars

\* one session was terminated and its subprocess then exited, one failed on
\* exit and its error event followed, and the pool was shut down
C10_Witness ==
  /\ lastOp.op = "shutdown"
  /\ \E i, j \in SessionIndices :
       /\ sessions[i].status = "completed" /\ sessions[i].claudeCodeProcess
       /\ sessions[j].status = "failed" /\ sessions[j].claudeCodeProcess


\* C11: under fair scheduling of session exits and of awaited starts, every
\* requestSession call is eventually settled (resolved or rejected); no
\* request stays pending forever.
C11_EveryRequestSettles ==
  \A request \in 1..MaxRequests :
    (Len(promises) >= request /\ promises[request] = "pending")
      ~> (Len(promises) >= request /\ promises[request] # "pending")

\* ------------------------------------------------- claims on the planner
PhaseIndices == 1..Len(phases)

\* the projects lib reaches in at most n steps along dependencyMap
RECURSIVE Below(_, _, _)
Below(dependencyMap, lib, n) ==
  IF n = 0 THEN {}
  ELSE dependencyMap[lib] \cup
       UNION {Below(dependencyMap, dep, n - 1) : dep \in dependencyMap[lib]}

Acyclic(dependencyMap) ==
  \A lib \in DOMAIN dependencyMap :
    lib \notin Below(dependencyMap, lib, Cardinality(DOMAIN dependencyMap))

\* C12: when the dependency graph restricted to the candidates is acyclic,
\* every project of a phase has each of its in-set dependencies in a strictly
\* earlier phase.
C12_DependenciesFirst ==
  LET dependencyMap == buildDependencyMap(libraries, dependencies)
  IN Acyclic(dependencyMap) =>
       \A i \in PhaseIndices : \A lib \in Range(phases[i].libraries) :
         \A dep \in dependencyMap[lib] :
           \E j \in 1..(i - 1) : dep \in Range(phases[j].libraries)

\* the chain a <- b <- c with maxSessions = 2 is planned as [a], [b], [c]
C12_Witness ==
  /\ planReturned
  /\ libraries = <<"a", "b", "c">>
  /\ maxSessions = 2
  /\ dependencies["a"] = {} /\ dependencies["b"] = {"a"} /\ dependencies["c"] = {"b"}
  /\ Len(phases) = 3
  /\ phases[1].libraries = <<"a">>
  /\ phases[2].libraries = <<"b">>
  /\ phases[3].libraries = <<"c">>

\* C13: planning ends, every phase holds between 1 and maxSessions projects,
\* and every candidate is in exactly one phase of the returned plan (in at
\* most one while the plan is built); a plan of non-empty phases that share
\* no project has at most as many phases as there are candidates.
C13_EveryCandidateInOnePhase ==
  /\ Len(phases) <= Len(libraries)
  /\ \A i \in PhaseIndices :
       Len(phases[i].libraries) >= 1 /\ Len(phases[i].libraries) <= maxSessions
  /\ \A lib \in Range(libraries) :
       LET holders == {i \in PhaseIndices : lib \in Range(phases[i].libraries)}
       IN /\ Cardinality(holders) <= 1
          /\ planReturned => Cardinality(holders) = 1

\* C14: a phase holds a project one of whose in-set dependencies is still
\* unassigned only when no unassigned project was ready, and that phase is
\* the first up-to-maxSessions unassigned projects in candidate order.
C14_ForcedOnlyWhenNoneReady ==
  [][Len(phases') = Len(phases) + 1 =>
       LET dependencyMap == buildDependencyMap(libraries, dependencies)
           libs == phases'[Len(phases')].libraries
           Unassigned(lib) == lib \notin processed
           remaining == SelectSeq(libraries, Unassigned)
       IN (\E lib \in Range(libs) : ~(dependencyMap[lib] \subseteq processed)) =>
            /\ \A lib \in Range(libraries) :
                 lib \in processed \/ ~(dependencyMap[lib] \subseteq processed)
            /\ libs = SubSeq(remaining, 1,
                             IF maxSessions < Len(remaining) THEN maxSessions
                             ELSE Len(remaining))]_allVars

\* the cycle a -> b -> c -> a with maxSessions = 2: the first phase is [a, b]
C14_Witness ==
  /\ libraries = <<"a", "b", "c">>
  /\ maxSessions = 2
  /\ dependencies["a"] = {"b"} /\ dependencies["b"] = {"c"} /\ dependencies["c"] = {"a"}
  /\ Len(phases) >= 1
  /\ phases[1].libraries = <<"a", "b">>

\* -------------------------------------------- claims on the orchestrator
RequestIndices == 1..Len(issued)
Started(sessionId) == sessions[sessionId].claudeCodeProcess

\* C15: the requests made so far are the first projects of the plan in phase
\* order and, within a phase, in list order, one request per project; a
\* request of a later phase exists only when every request of an earlier
\* phase has resolved with a started session; a successful run has requested
\* every project.
C15_RequestsInPhaseOrder ==
  LET planned == PlanRequests(Len(phases))
  IN /\ Len(issued) <= Len(planned)
     /\ issued = SubSeq(planned, 1, Len(issued))
     /\ \A r \in RequestIndices, q \in RequestIndices :
          issued[r][1] < issued[q][1] =>
            /\ promises[r] = "resolved"
            /\ \E sessionId \in 1..Len(sessions) :
                 sessions[sessionId].request = r /\ Started(sessionId)
     /\ (returned.state = "returned" /\ returned.success) => issued = planned

\* two phases, and the request of the second has been made
C15_Witness ==
  /\ Len(phases) = 2
  /\ Len(issued) = 2
  /\ issued[2] = <<2, 1>>

\* C16: while a session requested for a non-parallelizable phase that is not
\* the last is starting or in the active set, no request of a later phase has
\* been made.
C16_DrainedBeforeLaterPhase ==
  \A sessionId \in activeSessionsMap \cup starting :
    LET k == issued[sessions[sessionId].request][1]
    IN (~phases[k].parallelizable /\ k < Len(phases)) =>
         \A r \in RequestIndices : issued[r][1] <= k

\* the session of a non-parallelizable first phase has ended and the second
\* phase has made its request
C16_Witness ==
  /\ Len(phases) = 2
  /\ ~phases[1].parallelizable
  /\ Len(issued) = 2
  /\ issued[2][1] = 2
  /\ Ended(sessions[1].status)

\* C17: when some phase of the plan is parallelizable and the call has
\* returned success = true, no session of the pool is starting or active.
C17_SuccessAfterAllLeft ==
  (returned.state = "returned" /\ returned.success /\
   \E k \in 1..Len(phases) : phases[k].parallelizable)
    => activeSessionsMap = {} /\ starting = {}

\* a plan with a parallelizable phase has succeeded with two sessions
C17_Witness ==
  /\ returned.state = "returned"
  /\ returned.success
  /\ \E k \in 1..Len(phases) : phases[k].parallelizable
  /\ Len(sessions) = 2
  /\ Len(returned.sessions) = 2

\* C18: a poll that finds none of the awaited sessions active ends the wait
\* without failure; a poll that finds one active counts, and the 450th such
\* poll ends the call with success = false and the sessions started so far;
\* a call that has ended makes no further request.
C18_WaitIsBounded ==
  [][/\ (pc \in {"waitPhase", "waitAll"} /\
         (pc' # pc \/ retryCount' # retryCount)) =>
          LET someActive == \E sessionId \in Range(Waited) :
                              sessionId \in activeSessionsMap
          IN /\ retryCount < maxRetries
             /\ ~someActive =>
                  /\ pc' # pc
                  /\ returned'.state = "returned" => returned'.success
                  /\ returned'.state # "threw"
             /\ (someActive /\ retryCount + 1 < maxRetries) =>
                  pc' = pc /\ retryCount' = retryCount + 1
             /\ (someActive /\ retryCount + 1 = maxRetries) =>
                  /\ pc' = "done"
                  /\ returned'.state = "returned"
                  /\ ~returned'.success
                  /\ Range(returned'.sessions) =
                       {sessionId \in 1..Len(sessions) : Started(sessionId)}
                  /\ issued' = issued
     /\ pc = "done" => (pc' = "done" /\ issued' = issued)]_allVars

\* a wait has timed out at its 450th poll and the call reported the sessions
C18_Witness ==
  /\ pc = "done"
  /\ retryCount = maxRetries
  /\ returned.state = "returned"
  /\ ~returned.success
  /\ Len(returned.sessions) >= 1

\* C19: when the call has returned success = false, no session of the pool
\* is in the active set.
C19_FailureLeavesNoneActive ==
  (returned.state = "returned" /\ ~returned.success) => activeSessionsMap = {}

\* C20: the call never throws, and when it has ended it has returned a record.
C20_AlwaysReturnsRecord ==
  /\ returned.state \in {"none", "returned"}
  /\ pc = "done" => returned.state = "returned"

\* the call has returned although terminateSession failed during cleanup
C20_Witness ==
  /\ pc = "done"
  /\ warned # {}
  /\ returned.state = "returned"
  /\ ~returned.success

\* ------------------------------------------ claims on the working memory
\* the list of the cached memory that entries of a type are kept in
ListOf(type) ==
  LET memory == memoryCache[1]
  IN CASE type = "todo" -> memory.currentTodos
       [] type = "blocked" -> memory.blockedItems
       [] type = "question" -> memory.openQuestions
       [] OTHER -> memory.recentChanges

\* C21: each of the four lists holds at most 20 entries, the most recently
\* added ones of its type with the newest first: after n entries of a type,
\* numbered in order of insertion, its list is n, n-1, ... down to the 20th.
C21_ListsHoldNewest ==
  memoryCache # <<>> =>
    \A type \in CapTypes :
      LET list == ListOf(type)
          n == added[type]
      IN /\ Len(list) = (IF n < 20 THEN n ELSE 20)
         /\ \A i \in 1..Len(list) :
              list[i].type = type /\ list[i].content = ToString(n - i + 1)

\* 25 todos were added: currentTodos is the 25th down to the 6th
C21_Witness ==
  /\ added["todo"] = 25
  /\ Len(memoryCache[1].currentTodos) = 20
  /\ memoryCache[1].currentTodos[1].content = "25"
  /\ memoryCache[1].currentTodos[20].content = "6"

\* C22: an addEntry call of type 'completed' and content X that returns
\* leaves in currentTodos exactly the todos whose content is not X, in their
\* order, and puts the completed entry at the head of recentChanges (capped
\* at 20); with no todo of content X, currentTodos is unchanged.
C22_CompletedRemovesMatching ==
  [][(added'["completed"] = added["completed"] + 1 /\ memOp'.result = "ok") =>
       LET before == getWorkingMemory
           after == memoryCache'[1]
           X == after.recentChanges[1].content
           Other(todo) == todo.content # X
       IN /\ after.recentChanges[1].type = "completed"
          /\ after.recentChanges =
               Take(<<after.recentChanges[1]>> \o before.recentChanges, 20)
          /\ after.currentTodos = SelectSeq(before.currentTodos, Other)]_allVars

\* an addHandoff call that got as far as changing the memory
HandoffAdded ==
  /\ added'["handoff"] = added["handoff"] + 1
  /\ memoryCache' # <<>>
  /\ Len(memoryCache'[1].recentHandoffs) > 0
  /\ memoryCache'[1].recentHandoffs[1].sessionId = added'["handoff"]

\* the last n sections of a text, or all of them
LastSections(sections, n) ==
  SubSeq(sections, IF Len(sections) > n THEN Len(sections) - n + 1 ELSE 1,
         Len(sections))

\* C23: the stored narrative is never longer than 5000 characters.
C23_ContextWithinLimit ==
  memoryCache # <<>> => TextLength(memoryCache[1].currentContext) <= 5000

\* C24: when the narrative with the new summary appended is longer than 5000
\* characters, the new narrative ends with the last 3 sections of that text,
\* unchanged, and what precedes them is one summary section that gives the
\* number of sections it replaces.
C24_FoldKeepsLastThree ==
  [][HandoffAdded =>
       LET before == getWorkingMemory.currentContext
           new == formatHandoffSummary(memoryCache'[1].recentHandoffs[1])
           whole == before \o new
           after == memoryCache'[1].currentContext
       IN TextLength(whole) > 5000 =>
            /\ LastSections(after, 3) = LastSections(whole, 3)
            /\ Len(whole) > 3 =>
                 /\ Len(after) = 4
                 /\ after[1].part = "summary"
                 /\ after[1].folded = Len(whole) - 3
            /\ Len(whole) <= 3 => after = whole]_allVars

\* a narrative folded from more than 3 sections: a summary and three sections
\* of the handoffs
C24_Witness ==
  /\ memoryCache # <<>>
  /\ Len(memoryCache[1].currentContext) = 4
  /\ memoryCache[1].currentContext[1].part = "summary"
  /\ memoryCache[1].currentContext[1].folded >= 2
  /\ memoryCache[1].currentContext[4].session = added["handoff"]

\* C25: when the narrative with the new summary appended is at most 5000
\* characters long, it is stored as it is: the previous narrative, then the
\* sections of the new summary.
C25_AppendVerbatim ==
  [][HandoffAdded =>
       LET before == getWorkingMemory.currentContext
           new == formatHandoffSummary(memoryCache'[1].recentHandoffs[1])
           after == memoryCache'[1].currentContext
       IN TextLength(before \o new) <= 5000 =>
            /\ after = before \o new
            /\ SubSeq(after, 1, Len(before)) = before]_allVars

\* a second handoff was appended to a narrative and both are there in full
C25_Witness ==
  /\ memoryCache # <<>>
  /\ added["handoff"] = 2
  /\ Len(memoryCache[1].currentContext) = 6
  /\ memoryCache[1].currentContext[1].session = 1
  /\ memoryCache[1].currentContext[6].session = 2
  /\ TextLength(memoryCache[1].currentContext) <= 5000

\* a cleanupOldEntries call
CleanedUp ==
  /\ memOp'.op = "cleanupOldEntries"
  /\ now' = now
  /\ added' = added

\* C26: cleanupOldEntries with some maximal age removes from currentTodos,
\* recentChanges and openQuestions exactly the entries whose timestamp is
\* older than the cutoff (now less that age), keeps the others in order, and
\* leaves blockedItems, recentHandoffs and currentContext as they were.
C26_CleanupRemovesOlder ==
  [][CleanedUp =>
       \E hoursOld \in 1..MaxAge :
         LET before == getWorkingMemory
             after == memoryCache'[1]
             NotOlder(entry) == ~(entry.timestamp < now - hoursOld)
         IN /\ after.currentTodos = SelectSeq(before.currentTodos, NotOlder)
            /\ after.recentChanges = SelectSeq(before.recentChanges, NotOlder)
            /\ after.openQuestions = SelectSeq(before.openQuestions, NotOlder)
            /\ after.blockedItems = before.blockedItems
            /\ after.recentHandoffs = before.recentHandoffs
            /\ after.currentContext = before.currentContext]_allVars

\* C27: no call of addEntry, addHandoff or cleanupOldEntries ends by throwing,
\* whether or not the file could be written.
C27_WriteFailureNotPropagated ==
  memOp.result # "threw"

\* ------------------------------------------- claims on the knowledge store

\* at most one record of the list per value of the field, and of a value that
\* a workspace record and a library record share, only library records
OneRecordPerKey(merged, workspaceItems, libraryItems, KeyField(_)) ==
  /\ \A i, j \in 1..Len(merged) :
       KeyField(merged[i]) = KeyField(merged[j]) => i = j
  /\ \A i \in 1..Len(merged) :
       (/\ \E item \in Range(workspaceItems) : KeyField(item) = KeyField(merged[i])
        /\ \E item \in Range(libraryItems) : KeyField(item) = KeyField(merged[i]))
       => merged[i] \in Range(libraryItems)

Title(item) == item.title
Name(item) == item.name

\* C28: the merged decisions of a hierarchical view hold at most one record
\* per title and its merged patterns at most one per name, and where a
\* workspace record and a library record share the title or name, the record
\* that survives is the library's.
C28_OneRecordPerKey ==
  view # <<>> =>
    /\ OneRecordPerKey(view[1].decisions, view[1].workspace.decisions,
                       view[1].librarySpecific.decisions, Title)
    /\ OneRecordPerKey(view[1].patterns, view[1].workspace.patterns,
                       view[1].librarySpecific.patterns, Name)

\* the items of the list at the positions kept, in the list's order
Pick(list, kept) ==
  LET picked[i \in 0..Len(list)] ==
        IF i = 0 THEN <<>>
        ELSE IF i \in kept THEN Append(picked[i - 1], list[i])
        ELSE picked[i - 1]
  IN picked[Len(list)]

\* the merged list is the workspace list followed by the library list with
\* some items taken out
InScopeOrder(merged, workspaceItems, libraryItems) ==
  LET inherited == workspaceItems \o libraryItems
  IN \E kept \in SUBSET (1..Len(inherited)) : merged = Pick(inherited, kept)

\* C29: every workspace or library record whose title (name, for a pattern)
\* is not that of a record of the other scope is in the merged list, and the
\* merged list has its workspace records before its library records, each
\* group in stored order.
NonCollidingRetained(merged, workspaceItems, libraryItems, KeyField(_)) ==
  /\ \A item \in Range(workspaceItems) :
       (\A other \in Range(libraryItems) : KeyField(other) # KeyField(item))
       => item \in Range(merged)
  /\ \A item \in Range(libraryItems) :
       (\A other \in Range(workspaceItems) : KeyField(other) # KeyField(item))
       => item \in Range(merged)
  /\ InScopeOrder(merged, workspaceItems, libraryItems)

C29_NonCollidingRetained ==
  view # <<>> =>
    /\ NonCollidingRetained(view[1].decisions, view[1].workspace.decisions,
                            view[1].librarySpecific.decisions, Title)
    /\ NonCollidingRetained(view[1].patterns, view[1].workspace.patterns,
                            view[1].librarySpecific.patterns, Name)

\* C29, amended: every record that no later record of the workspace list
\* followed by the library list shares its title (name) with is in the merged
\* list, and the merged list has its workspace records before its library
\* records, each group in stored order.
LastOfKeyRetained(merged, workspaceItems, libraryItems, KeyField(_)) ==
  LET inherited == workspaceItems \o libraryItems
  IN /\ \A i \in 1..Len(inherited) :
          (\A j \in (i + 1)..Len(inherited) :
             KeyField(inherited[j]) # KeyField(inherited[i]))
          => inherited[i] \in Range(merged)
     /\ InScopeOrder(merged, workspaceItems, libraryItems)

C29_LastOfKeyRetained ==
  view # <<>> =>
    /\ LastOfKeyRetained(view[1].decisions, view[1].workspace.decisions,
                         view[1].librarySpecific.decisions, Title)
    /\ LastOfKeyRetained(view[1].patterns, view[1].workspace.patterns,
                         view[1].librarySpecific.patterns, Name)

\* a view whose merged patterns are a workspace pattern followed by a library
\* pattern, another library pattern of that name having been left out
C29_Witness ==
  /\ view # <<>>
  /\ Len(view[1].patterns) = 2
  /\ Len(view[1].inheritedPatterns) = 3
  /\ view[1].patterns[1] \in Range(view[1].workspace.patterns)
  /\ view[1].patterns[2] \in Range(view[1].librarySpecific.patterns)
  /\ view[1].patterns[1].name # view[1].patterns[2].name

\* ------------------------------------------- claims on the session history

\* a compressOldSessions call
Compressed ==
  /\ knowOp'.op = "compressOldSessions"
  /\ persisted' = persisted
  /\ now' = now

IsPrefix(s, t) == Len(s) <= Len(t) /\ SubSeq(t, 1, Len(s)) = s

\* C30: compressOldSessions(library, k) changes nothing when recentSessions
\* holds at most k summaries; otherwise, when it returns, recentSessions is
\* its first k summaries (the most recent) in order, accumulatedKnowledge
\* starts with all it held and has one more decision per summary taken out,
\* and lastCompressionDate is the time of the call.
C30_CompressKeepsRecent ==
  [][Compressed =>
       LET before == loadLibraryKnowledge
           k == knowOp'.arg
           older == Len(before.recentSessions) - k
       IN IF older <= 0 THEN knowledgeFile' = knowledgeFile
          ELSE knowOp'.result = "ok" =>
                 LET after == knowledgeFile'[1]
                     had == before.accumulatedKnowledge
                     has == after.accumulatedKnowledge
                 IN /\ after.recentSessions = SubSeq(before.recentSessions, 1, k)
                    /\ IsPrefix(had.patterns, has.patterns)
                    /\ IsPrefix(had.decisions, has.decisions)
                    /\ IsPrefix(had.solutions, has.solutions)
                    /\ IsPrefix(had.pitfalls, has.pitfalls)
                    /\ IsPrefix(had.crossLibraryLearnings, has.crossLibraryLearnings)
                    /\ Len(has.decisions) = Len(had.decisions) + older
                    /\ \A i \in 1..older :
                         has.decisions[Len(had.decisions) + i].date =
                           before.recentSessions[k + i].date
                    /\ after.lastCompressionDate = now]_allVars

\* a history compressed to one recent summary, the latest of three: the two
\* older ones folded into decisions, the distilled pattern still there
C30_Witness ==
  /\ knowOp = Call("compressOldSessions", 1, "ok")
  /\ knowledgeFile # <<>>
  /\ Len(knowledgeFile[1].recentSessions) = 1
  /\ knowledgeFile[1].recentSessions[1].id = 3
  /\ Len(knowledgeFile[1].accumulatedKnowledge.decisions) = 2
  /\ knowledgeFile[1].accumulatedKnowledge.patterns # <<>>
  /\ knowledgeFile[1].lastCompressionDate > 0

\* C31: the history file of a library never holds more than the default cap
\* of session summaries in recentSessions.
C31_RecentWithinCap ==
  knowledgeFile # <<>> =>
    Len(knowledgeFile[1].recentSessions) <= DefaultMaxRecentSessions

\* a call of the method of that name
Recorded(name) ==
  /\ storeOp'.op = name
  /\ now' = now

\* the decisions of the scope have one more record, whose id names the scope,
\* behind the ones they had, and no other list of decisions or patterns changed
AppendedTo(scope) ==
  /\ Len(decisionsFile'[scope]) = Len(decisionsFile[scope]) + 1
  /\ SubSeq(decisionsFile'[scope], 1, Len(decisionsFile[scope])) = decisionsFile[scope]
  /\ decisionsFile'[scope][Len(decisionsFile'[scope])].id = recordId(scope)
  /\ \A other \in Scopes \ {scope} : decisionsFile'[other] = decisionsFile[other]
  /\ patternsFile' = patternsFile

C33_SequentialChain ==
  planReturned =>
    /\ Len(phases) = Len(libraries)
    /\ \A i \in 1..Len(phases) :
         /\ phases[i].phase = i
         /\ phases[i].libraries = <<libraries[i]>>
         /\ ~phases[i].parallelizable
         /\ phases[i].dependencies =
              IF i = 1 THEN {} ELSE Range(phases[i - 1].libraries)

\* a sequential plan of three phases whose second project depends, in the
\* graph, on something else than the first
C33_Witness ==
  /\ planReturned
  /\ Len(phases) = 3
  /\ libraries[1] \notin dependencies[libraries[2]]
  /\ dependencies[libraries[2]] # {}

\* ------------------------------------------ claims on the routing of entries

\* the list an entry of the type is put on
TargetOf(type) ==
  CASE type = "todo" -> "currentTodos"
    [] type = "blocked" -> "blockedItems"
    [] type = "question" -> "openQuestions"
    [] type \in {"change", "decision"} -> "recentChanges"

EntryLists == {"currentTodos", "blockedItems", "openQuestions", "recentChanges"}

\* an addEntry call with an entry of the type
AddedEntry(type) == added'[type] = added[type] + 1

\* C34: an addEntry call with an entry of type todo, blocked, question, change
\* or decision leaves the three lists that are not the type's target,
\* recentHandoffs and currentContext as they were, and when it returns, the
\* entry heads the target list, in front of the entries that were there, and
\* lastUpdated is the time of the call.
C34_RoutedToOwnList ==
  [][\A type \in {"todo", "blocked", "question", "change", "decision"} :
       AddedEntry(type) =>
         LET before == getWorkingMemory
             after == memoryCache'[1]
             target == TargetOf(type)
         IN /\ \A list \in EntryLists \ {target} : after[list] = before[list]
            /\ after.recentHandoffs = before.recentHandoffs
            /\ after.currentContext = before.currentContext
            /\ memOp'.result = "ok" =>
                 /\ after[target] # <<>>
                 /\ after[target][1].type = type
                 /\ after[target][1].timestamp = now
                 /\ Tail(after[target]) = before[target]
                 /\ after.lastUpdated = now]_allVars

\* a blocked entry was added to a memory that held a todo
C34_Witness ==
  /\ memOp = Op("addEntry", "ok")
  /\ memoryCache # <<>>
  /\ Len(memoryCache[1].blockedItems) = 1
  /\ Len(memoryCache[1].currentTodos) = 1
  /\ memoryCache[1].blockedItems[1].timestamp > memoryCache[1].currentTodos[1].timestamp

\* ------------------------------------------ claims on the execution of plans

\* C35: while executeOrchestrationPlan runs a plan built with maxSessions = m,
\* the pool's active set holds at most m sessions.
C35_ActiveWithinMaxSessions ==
  pc \notin {"called", "done"} => Cardinality(activeSessionsMap) <= maxSessions

\* C36: once executeOrchestrationPlan has returned success = true, none of the
\* sessions it returns is in the pool's active set.
C36_SuccessLeavesNoneActive ==
  (returned.state = "returned" /\ returned.success) =>
    \A i \in 1..Len(returned.sessions) :
      returned.sessions[i] \notin activeSessionsMap

\* the project a request was made for
ProjectOf(request) == phases[issued[request][1]].libraries[issued[request][2]]

\* C37: when a session is requested for a project of a plan over an acyclic
\* graph, no session requested for one of the project's dependencies among
\* the candidates is in the pool's active set.
C37_RequestedAfterDependencies ==
  [][Len(issued') = Len(issued) + 1 =>
       \A sessionId \in activeSessionsMap :
         ProjectOf(sessions[sessionId].request)
           \notin dependencies[phases[phaseIndex].libraries[libIndex]]]_allVars

\* ------------------------------------------------ claims on the pool's queue

\* a requestSession call that starts its session at once
StartedAtOnce ==
  /\ Len(promises') = Len(promises) + 1
  /\ lastOp' = Op("requestSession", "spawn")

\* C38: a requestSession call starts its session at once only when no request
\* waits in the queue. (The call starts or queues its request whatever the
\* task, so a request started past a waiting one is also started past a
\* waiting one of equal or higher score.)
C38_NoOvertaking ==
  [][StartedAtOnce => taskQueue = <<>>]_allVars

\* ------------------------------------------- claims on the completed todos

\* C39: an addEntry call of type 'completed' and content X that returns
\* leaves every todo whose content differs from X in currentTodos, in
\* unchanged relative order.
C39_OtherTodosKept ==
  [][(added'["completed"] = added["completed"] + 1 /\ memOp'.result = "ok") =>
       LET X == memoryCache'[1].recentChanges[1].content
           Differs(todo) == todo.content # X
       IN SelectSeq(memoryCache'[1].currentTodos, Differs) =
            SelectSeq(getWorkingMemory.currentTodos, Differs)]_allVars

\* ------------------------------------ claims on the files of the working memory

\* C40: two distinct library names have distinct working-memory files, so an
\* addEntry call for one library leaves the saved record of every other
\* library that has one as it was.
C40_OtherRecordsKept ==
  [][\A library \in ProjectNames :
       (keyOp'.library # library /\ cacheOf[library] # <<>>) =>
         /\ getMemoryPath(library) # getMemoryPath(keyOp'.library)
         /\ fileOf'[getMemoryPath(library)] = fileOf[getMemoryPath(library)]]_allVars

====
